---- MODULE Spec2Model ----
(***************************************************************************)
(* KernelForge (src/kernel_system/kernel_forge.py): the boot-image         *)
(* container codec.  Files are byte sequences (bytes are 0..255), the      *)
(* workspace is a map from path to contents, and every public method is    *)
(* one action that leaves its outcome (return value or exception) in res.  *)
(***************************************************************************)
EXTENDS Integers, Sequences, FiniteSets, TLC

VARIABLES
    tools,      \* self.tools: which external tools _detect_tools found
    fs,         \* the file system: path -> contents, for the files that exist
    clock,      \* what datetime.now() returns next
    invoked,    \* the external commands run by the last call, in order
    res,        \* the last call: its operation, arguments and outcome
    workers,    \* the analyze_kernel calls running in parallel, one frame each
    control     \* the MasterControl object and the position of its run loop

vars == <<tools, fs, clock, invoked, res, workers, control>>

(***************************************************************************)
(* Bytes and Python's slicing and file reads.                              *)
(***************************************************************************)
Min(a, b) == IF a < b THEN a ELSE b

Max(a, b) == IF a < b THEN b ELSE a

\* data[:n]
Take(data, n) == SubSeq(data, 1, Min(n, Len(data)))

\* data[n:]
Drop(data, n) == SubSeq(data, n + 1, Len(data))

\* f.seek(pos); f.read(n): short, or empty, at the end of the file
ReadAt(data, pos, n) == SubSeq(data, pos + 1, Min(pos + n, Len(data)))

Zeros(n) == [i \in 1..n |-> 0]

\* bytes.find(pat, from): the first index >= from at which pat occurs, or -1
Find(data, pat, from) ==
    LET hits == {i \in from..(Len(data) - Len(pat)) :
                    SubSeq(data, i + 1, i + Len(pat)) = pat}
    IN  IF hits = {} THEN -1 ELSE CHOOSE i \in hits : \A j \in hits : i <= j

\* struct.pack('<I', n)
Pack32(n) ==
    <<n % 256, (n \div 256) % 256, (n \div 65536) % 256, (n \div 16777216) % 256>>

\* struct.unpack('<I', b)[0], defined when len(b) = 4
Unpack32(b) == b[1] + 256 * b[2] + 65536 * b[3] + 16777216 * b[4]

\* bytes.decode('ascii', errors='ignore'): bytes above 127 are dropped
DecodeAsciiIgnore(b) == SelectSeq(b, LAMBDA c : c < 128)

\* str.strip(chars): without the leading and trailing characters in chars
Strip(s, chars) ==
    LET keep == {i \in 1..Len(s) : s[i] \notin chars}
    IN  IF keep = {} THEN <<>>
        ELSE LET lo == CHOOSE i \in keep : \A j \in 1..(i - 1) : s[j] \in chars
                 hi == CHOOSE i \in keep : \A j \in (i + 1)..Len(s) : s[j] \in chars
             IN  SubSeq(s, lo, hi)

\* str.strip('\x00')
StripNul(s) == Strip(s, {0})

\* what str.strip() removes, among the ASCII characters
Whitespace == {9, 10, 11, 12, 13, 28, 29, 30, 31, 32}

(***************************************************************************)
(* The container header, as _extract_manually reads it.                    *)
(***************************************************************************)
\* b'ANDROID!'
BootMagic == <<65, 78, 68, 82, 79, 73, 68, 33>>

MagicLen == 8

NameLen == 16

CmdlineLen == 512

\* the ten little-endian 32-bit fields, in the order they are read
FieldNames ==
    <<"kernel_size", "kernel_addr", "ramdisk_size", "ramdisk_addr",
      "second_size", "second_addr", "tags_addr", "page_size",
      "header_version", "os_version">>

\* the bytes f.read(4) returns for the i-th field
FieldBytes(data, i) == ReadAt(data, MagicLen + 4 * (i - 1), 4)

FieldsEnd == MagicLen + 4 * Len(FieldNames)

\* magic + ten fields + name + cmdline
HeaderLen == FieldsEnd + NameLen + CmdlineLen

\* struct.unpack raises struct.error on a short read
HeaderRaises(data) == \E i \in 1..Len(FieldNames) : Len(FieldBytes(data, i)) # 4

ParseHeader(data) ==
    [kernel_size    |-> Unpack32(FieldBytes(data, 1)),
     kernel_addr    |-> Unpack32(FieldBytes(data, 2)),
     ramdisk_size   |-> Unpack32(FieldBytes(data, 3)),
     ramdisk_addr   |-> Unpack32(FieldBytes(data, 4)),
     second_size    |-> Unpack32(FieldBytes(data, 5)),
     second_addr    |-> Unpack32(FieldBytes(data, 6)),
     tags_addr      |-> Unpack32(FieldBytes(data, 7)),
     page_size      |-> Unpack32(FieldBytes(data, 8)),
     header_version |-> Unpack32(FieldBytes(data, 9)),
     os_version     |-> Unpack32(FieldBytes(data, 10)),
     name    |-> StripNul(DecodeAsciiIgnore(ReadAt(data, FieldsEnd, NameLen))),
     cmdline |-> StripNul(DecodeAsciiIgnore(
                     ReadAt(data, FieldsEnd + NameLen, CmdlineLen)))]

\* a rounding that forgets the padding
RoundUpNoPad(size, page_size) == size

\* a rounding that always moves on to the next page, also from a page boundary
RoundUpNext(size, page_size) == (size \div page_size + 1) * page_size

\* ((size + page_size - 1) // page_size) * page_size, for page_size > 0
RoundUp(size, page_size) == ((size + page_size - 1) \div page_size) * page_size

\* offsets that do not advance past the kernel
OffsetsNoAdvance(h) ==
    [kernel_offset  |-> h.page_size,
     ramdisk_offset |-> h.page_size,
     second_offset  |-> h.page_size + RoundUp(h.ramdisk_size, h.page_size)]

\* the three offsets of lines 234-236
Offsets(h) ==
    LET kernel_offset  == h.page_size
        ramdisk_offset == kernel_offset + RoundUp(h.kernel_size, h.page_size)
        second_offset  == ramdisk_offset + RoundUp(h.ramdisk_size, h.page_size)
    IN  [kernel_offset  |-> kernel_offset,
         ramdisk_offset |-> ramdisk_offset,
         second_offset  |-> second_offset]

(***************************************************************************)
(* Text: Python str values are sequences of character codes.               *)
(***************************************************************************)
HexDigits == <<48, 49, 50, 51, 52, 53, 54, 55, 56, 57, 97, 98, 99, 100, 101, 102>>

RECURSIVE Digits(_, _)
Digits(n, base) ==
    IF n < base THEN <<HexDigits[n + 1]>>
    ELSE Digits(n \div base, base) \o <<HexDigits[(n % base) + 1]>>

\* hex(n), n >= 0: '0x' and lower-case digits
Hex(n) == <<48, 120>> \o Digits(n, 16)

\* str(n), n >= 0
Str(n) == Digits(n, 10)

\* the keys of boot_config, as text
KeyText(key) ==
    CASE key = "kernel_addr"  -> <<107, 101, 114, 110, 101, 108, 95, 97, 100, 100, 114>>
      [] key = "ramdisk_addr" -> <<114, 97, 109, 100, 105, 115, 107, 95, 97, 100, 100, 114>>
      [] key = "second_addr"  -> <<115, 101, 99, 111, 110, 100, 95, 97, 100, 100, 114>>
      [] key = "tags_addr"    -> <<116, 97, 103, 115, 95, 97, 100, 100, 114>>
      [] key = "page_size"    -> <<112, 97, 103, 101, 95, 115, 105, 122, 101>>
      [] key = "cmdline"      -> <<99, 109, 100, 108, 105, 110, 101>>
      [] key = "name"         -> <<110, 97, 109, 101>>

\* boot_config of lines 239-247: a dict, in insertion order
BootConfig(h) ==
    <<[key |-> "kernel_addr",  value |-> Hex(h.kernel_addr)],
      [key |-> "ramdisk_addr", value |-> Hex(h.ramdisk_addr)],
      [key |-> "second_addr",  value |-> Hex(h.second_addr)],
      [key |-> "tags_addr",    value |-> Hex(h.tags_addr)],
      [key |-> "page_size",    value |-> Str(h.page_size)],
      [key |-> "cmdline",      value |-> h.cmdline],
      [key |-> "name",         value |-> h.name]>>

RECURSIVE CfgText(_)
\* cf.write(f"{key} = {value}\n") for every item
CfgText(items) ==
    IF items = <<>> THEN <<>>
    ELSE KeyText(Head(items).key) \o <<32, 61, 32>> \o Head(items).value \o <<10>>
             \o CfgText(Tail(items))

(***************************************************************************)
(* The file system.                                                        *)
(***************************************************************************)
Exists(f, path) == path \in DOMAIN f

WriteFile(f, path, content) ==
    [p \in DOMAIN f \cup {path} |-> IF p = path THEN content ELSE f[p]]

RemoveFile(f, path) == [p \in DOMAIN f \ {path} |-> f[p]]

\* Path(p).stem, for the file names of the model
\* self.extract_dir
ExtractDir == "kernel_workspace/extracted"

\* the boot images of the model, and Path(p).stem of each
ImageNames == {"boot.img", "new_boot.img"}

ImageStem(path) == IF path = "boot.img" THEN "boot" ELSE "new_boot"

\* self.extract_dir / boot_path.stem
ExtractPath(boot_path) == ExtractDir \o "/" \o ImageStem(boot_path)

\* Path(p).stem of a kernel file: the last component without its suffix
KernelStem(path) ==
    CASE path \in {ExtractPath(i) \o "/zImage" : i \in ImageNames} -> "zImage"
      [] path \in {ExtractPath(i) \o "/Image" : i \in ImageNames}  -> "Image"
      [] OTHER -> "kernel"

(***************************************************************************)
(* Python values: None, and dicts as functions from the keys present.      *)
(***************************************************************************)
None == "None"

EmptyDict == [k \in {} |-> None]

\* d.update(e)
Update(d, e) == e @@ d

\* config[key] = value on an insertion-ordered dict
DictSet(config, key, value) ==
    IF \E i \in 1..Len(config) : config[i].key = key
    THEN [i \in 1..Len(config) |->
             IF config[i].key = key THEN [key |-> key, value |-> value] ELSE config[i]]
    ELSE Append(config, [key |-> key, value |-> value])

(***************************************************************************)
(* Compression sniffing and decompression.                                 *)
(***************************************************************************)
\* the signature of each kind _detect_compression knows
Signature(kind) ==
    CASE kind = "gzip"  -> <<31, 139>>
      [] kind = "bzip2" -> <<66, 90>>
      [] kind = "xz"    -> <<253, 55, 122, 88, 90, 0>>
      [] kind = "lzo"   -> <<137, 76, 90, 79>>
      [] kind = "zstd"  -> <<40, 181, 47, 253>>
      [] kind = "lz4"   -> <<2, 33, 76>>

Kinds == {"gzip", "bzip2", "xz", "lzo", "zstd", "lz4"}

\* a sniffer without the lz4 test
DetectCompressionNoLz4(magic) ==
    IF Take(magic, 2) = <<31, 139>> THEN "gzip"
    ELSE IF Take(magic, 2) = <<66, 90>> THEN "bzip2"
    ELSE IF Take(magic, 6) = <<253, 55, 122, 88, 90, 0>> THEN "xz"
    ELSE IF Take(magic, 4) = <<137, 76, 90, 79>> THEN "lzo"
    ELSE IF Take(magic, 4) = <<40, 181, 47, 253>> THEN "zstd"
    ELSE None

\* a sniffer whose xz test looks past the sixth byte
DetectCompressionLong(magic) ==
    IF Take(magic, 2) = <<31, 139>> THEN "gzip"
    ELSE IF Take(magic, 2) = <<66, 90>> THEN "bzip2"
    ELSE IF Take(magic, 7) = <<253, 55, 122, 88, 90, 0, 0>> THEN "xz"
    ELSE IF Take(magic, 4) = <<137, 76, 90, 79>> THEN "lzo"
    ELSE IF Take(magic, 4) = <<40, 181, 47, 253>> THEN "zstd"
    ELSE IF Take(magic, 3) = <<2, 33, 76>> THEN "lz4"
    ELSE None

\* the if/elif chain of _detect_compression, on magic = f.read(8)
DetectCompression(magic) ==
    IF Take(magic, 2) = <<31, 139>> THEN "gzip"
    ELSE IF Take(magic, 2) = <<66, 90>> THEN "bzip2"
    ELSE IF Take(magic, 6) = <<253, 55, 122, 88, 90, 0>> THEN "xz"
    ELSE IF Take(magic, 4) = <<137, 76, 90, 79>> THEN "lzo"
    ELSE IF Take(magic, 4) = <<40, 181, 47, 253>> THEN "zstd"
    ELSE IF Take(magic, 3) = <<2, 33, 76>> THEN "lz4"
    ELSE None

\* how many bytes _detect_compression reads
SniffLen == 8

\* The external decompressors (gunzip, unxz, bunzip2, lz4) are deterministic
\* partial functions of the stream.  The model's streams are a signature, a
\* method byte that must be 8 (gzip's CM field) and the stored payload; every
\* other stream is rejected with a non-zero exit status.
StreamOk(kind, data) ==
    /\ Len(data) > Len(Signature(kind))
    /\ Take(data, Len(Signature(kind)) + 1) = Signature(kind) \o <<8>>

StreamPayload(kind, data) == Drop(data, Len(Signature(kind)) + 1)

\* the kinds _decompress_kernel runs a tool for, and the tool
Decompressor(kind) ==
    CASE kind = "gzip"  -> "gunzip"
      [] kind = "xz"    -> "unxz"
      [] kind = "bzip2" -> "bunzip2"
      [] kind = "lz4"   -> "lz4"
      [] OTHER          -> None

\* self.extract_dir / f"{kernel_file.stem}_decompressed"
DecompressedPath(kernel_file) ==
    ExtractDir \o "/" \o KernelStem(kernel_file) \o "_decompressed"

\* _decompress_kernel: the path of the decompressed file, or None.  With -c
\* the output file is opened (created, truncated) before the tool runs.
DecompressKernel(f, kernel_file, compression) ==
    IF Decompressor(compression) = None
    THEN [ret |-> None, raised |-> "none", fs |-> f, cmds |-> <<>>]
    ELSE IF StreamOk(compression, f[kernel_file])
    THEN [ret |-> DecompressedPath(kernel_file), raised |-> "none",
          fs |-> WriteFile(f, DecompressedPath(kernel_file),
                           StreamPayload(compression, f[kernel_file])),
          cmds |-> <<Decompressor(compression)>>]
    ELSE \* CalledProcessError, caught by `except Exception`
         [ret |-> None, raised |-> "none",
          fs |-> IF compression = "lz4" THEN f
                 ELSE WriteFile(f, DecompressedPath(kernel_file), <<>>),
          cmds |-> <<Decompressor(compression)>>]


(***************************************************************************)
(* The facets analyze_kernel collects: version, embedded configuration,    *)
(* configuration features and security flags.  Text is kept as the         *)
(* sequence of its character codes.                                        *)
(***************************************************************************)
\* a in b, for bytes and for str
Contains(data, pat) == Find(data, pat, 0) # -1

\* how many elements of data from index from on (0-based) lie in class
Run(data, from, class) ==
    IF \A k \in (from + 1)..Len(data) : data[k] \in class
    THEN Max(Len(data) - from, 0)
    ELSE (CHOOSE k \in (from + 1)..Len(data) :
              /\ data[k] \notin class
              /\ \A j \in (from + 1)..(k - 1) : data[j] \in class) - 1 - from

\* the classes of rb'Linux version [\d\.]+-[\w\-\+\.]+\s+\([^)]+\)'
DigitDot == (48..57) \cup {46}

ReleaseChars == (48..57) \cup (65..90) \cup (97..122) \cup {95, 45, 43, 46}

ReSpace == {9, 10, 11, 12, 13, 32}

NotParen == (0..255) \ {41}

\* 'Linux version '
LinuxVersion == <<76, 105, 110, 117, 120, 32, 118, 101, 114, 115, 105, 111, 110, 32>>

\* 'unknown'
Unknown == <<117, 110, 107, 110, 111, 119, 110>>

\* \([^)]+\) from index d, where the '(' is: the end of the match, or -1
MatchParen(data, d) ==
    IF Run(data, d + 1, NotParen) >= 1 /\ d + 1 + Run(data, d + 1, NotParen) < Len(data)
    THEN d + 1 + Run(data, d + 1, NotParen) + 1
    ELSE -1

\* \s+ from index c, then the parenthesis
MatchSpace(data, c) ==
    IF /\ Run(data, c, ReSpace) >= 1
       /\ c + Run(data, c, ReSpace) < Len(data)
       /\ data[c + Run(data, c, ReSpace) + 1] = 40
    THEN MatchParen(data, c + Run(data, c, ReSpace))
    ELSE -1

\* [\w\-\+\.]+ from index b
MatchRelease(data, b) ==
    IF Run(data, b, ReleaseChars) >= 1
    THEN MatchSpace(data, b + Run(data, b, ReleaseChars))
    ELSE -1

\* [\d\.]+- from index a
MatchNumber(data, a) ==
    IF /\ Run(data, a, DigitDot) >= 1
       /\ a + Run(data, a, DigitDot) < Len(data)
       /\ data[a + Run(data, a, DigitDot) + 1] = 45
    THEN MatchRelease(data, a + Run(data, a, DigitDot) + 1)
    ELSE -1

\* the end of the match of the pattern that starts at index i, or -1
VersionEnd(data, i) ==
    IF ReadAt(data, i, Len(LinuxVersion)) = LinuxVersion
    THEN MatchNumber(data, i + Len(LinuxVersion))
    ELSE -1

\* where re.findall finds matches[0], or -1
VersionStart(data) ==
    IF \A i \in 0..Len(data) : VersionEnd(data, i) = -1 THEN -1
    ELSE CHOOSE i \in 0..Len(data) :
             /\ VersionEnd(data, i) # -1
             /\ \A j \in 0..(i - 1) : VersionEnd(data, j) = -1

\* lines 387-392 on the decoded match
BuildInfo(version_str) ==
    IF Run(version_str, Find(version_str, <<40>>, 0) + 1, NotParen) >= 1
    THEN SubSeq(version_str, Find(version_str, <<40>>, 0) + 2, Len(version_str) - 1)
    ELSE Unknown

VersionFields(version_str) ==
    [version_string |-> version_str,
     kernel_version |-> SubSeq(version_str, Len(LinuxVersion) + 1,
                               Len(LinuxVersion)
                               + Run(version_str, Len(LinuxVersion), DigitDot)),
     build_info |-> BuildInfo(version_str)]

\* _extract_kernel_version on the bytes of the file: the dict, or {} for None
VersionAt(data, i) ==
    IF i = -1 THEN EmptyDict
    ELSE VersionFields(DecodeAsciiIgnore(SubSeq(data, i + 1, VersionEnd(data, i))))

ExtractKernelVersion(data) == VersionAt(data, VersionStart(data))

\* b'IKCFG_ST' and b'IKCFG_ED'
StartMarker == <<73, 75, 67, 70, 71, 95, 83, 84>>

EndMarker == <<73, 75, 67, 70, 71, 95, 69, 68>>

\* gzip.decompress accepts the streams gunzip accepts, and the empty input
GzipAccepts(config_data) == config_data = <<>> \/ StreamOk("gzip", config_data)

GzipDecompress(config_data) ==
    IF config_data = <<>> THEN <<>> ELSE StreamPayload("gzip", config_data)

\* .decode('utf-8', errors='ignore') on input without multi-byte sequences
DecodeUtf8Ignore(b) == SelectSeq(b, LAMBDA c : c < 128)

RECURSIVE SplitOn(_, _)
\* text.split(sep) for a separator of one character
SplitOn(text, sep) ==
    IF Find(text, <<sep>>, 0) = -1 THEN <<text>>
    ELSE <<Take(text, Find(text, <<sep>>, 0))>>
         \o SplitOn(Drop(text, Find(text, <<sep>>, 0) + 1), sep)

\* an entry for every stripped line with '=', comment lines included
ConfigEntryAnyLine(config, line) ==
    IF Contains(line, <<61>>)
    THEN DictSet(config, Take(line, Find(line, <<61>>, 0)),
                 Drop(line, Find(line, <<61>>, 0) + 1))
    ELSE config

\* lines 549-552 on a stripped line
ConfigEntry(config, line) ==
    IF line # <<>> /\ Head(line) # 35 /\ Contains(line, <<61>>)
    THEN DictSet(config, Take(line, Find(line, <<61>>, 0)),
                 Drop(line, Find(line, <<61>>, 0) + 1))
    ELSE config

RECURSIVE ConfigEntries(_, _)
ConfigEntries(config, lines) ==
    IF lines = <<>> THEN config
    ELSE ConfigEntries(ConfigEntry(config, Strip(Head(lines), Whitespace)), Tail(lines))

\* lines 547-552: the parsed configuration, in insertion order
ParseKernelConfig(config_text) == ConfigEntries(<<>>, SplitOn(config_text, 10))

\* how many entries sample_configs keeps
SampleCount == 10

ConfigFile == ExtractDir \o "/kernel_config.txt"

NoConfig(f) == [found |-> FALSE, ret |-> EmptyDict, fs |-> f]

\* lines 546-563, with the decompressed text
ConfigFrom(f, config_text) ==
    [found |-> TRUE,
     ret |-> [config_file |-> ConfigFile,
              config_count |-> Len(ParseKernelConfig(config_text)),
              sample_configs |-> Take(ParseKernelConfig(config_text), SampleCount)],
     fs |-> WriteFile(f, ConfigFile, config_text)]

\* lines 540-567, with config_data; an exception of gzip gives None
ConfigData(f, config_data) ==
    IF GzipAccepts(config_data)
    THEN ConfigFrom(f, DecodeUtf8Ignore(GzipDecompress(config_data)))
    ELSE NoConfig(f)

\* an end index that stands for the end of the buffer when the marker is missing
EndIdxOrEnd(data, start_idx) ==
    IF Find(data, EndMarker, start_idx) = -1 THEN Len(data)
    ELSE Find(data, EndMarker, start_idx)

\* line 535: data.find(end_marker, start_idx)
EndIdx(data, start_idx) == Find(data, EndMarker, start_idx)

\* a slice that keeps the start marker
ConfigPayloadWithMarker(data, start_idx, end_idx) == SubSeq(data, start_idx + 1, end_idx)

\* line 540: data[start_idx + len(start_marker):end_idx]
ConfigPayload(data, start_idx, end_idx) ==
    SubSeq(data, start_idx + Len(StartMarker) + 1, end_idx)

\* lines 535-567, with start_idx
ConfigBetween(f, data, start_idx, end_idx) ==
    IF end_idx = -1 THEN NoConfig(f)
    ELSE ConfigData(f, ConfigPayload(data, start_idx, end_idx))

ConfigAfter(f, data, start_idx) ==
    IF start_idx = -1 THEN NoConfig(f)
    ELSE ConfigBetween(f, data, start_idx, EndIdx(data, start_idx))

\* _extract_kernel_config on the bytes of the file
ExtractKernelConfig(f, data) == ConfigAfter(f, data, Find(data, StartMarker, 0))

\* what lines 531-540 computed: the two indexes and, with both markers found,
\* the slice handed to gzip.decompress
ConfigSliceAt(data, start_idx, end_idx) ==
    [start_idx |-> start_idx, end_idx |-> end_idx,
     config_data |-> IF start_idx = -1 \/ end_idx = -1 THEN <<>>
                     ELSE ConfigPayload(data, start_idx, end_idx)]

ConfigSliceFrom(data, start_idx) ==
    ConfigSliceAt(data, start_idx, IF start_idx = -1 THEN -1 ELSE EndIdx(data, start_idx))

ConfigSlice(data) == ConfigSliceFrom(data, Find(data, StartMarker, 0))

\* the checks of lines 587-625, in the order of the source
FeatureChecks ==
    <<
      [bucket |-> "security", desc |-> "SELinux enabled",
       \* CONFIG_SECURITY_SELINUX=y
       config |-> <<67, 79, 78, 70, 73, 71, 95, 83, 69, 67, 85, 82, 73, 84, 89, 95, 83, 69, 76, 73, 78, 85, 88, 61, 121>>],
      [bucket |-> "security", desc |-> "AppArmor enabled",
       \* CONFIG_SECURITY_APPARMOR=y
       config |-> <<67, 79, 78, 70, 73, 71, 95, 83, 69, 67, 85, 82, 73, 84, 89, 95, 65, 80, 80, 65, 82, 77, 79, 82, 61, 121>>],
      [bucket |-> "security", desc |-> "Seccomp enabled",
       \* CONFIG_SECCOMP=y
       config |-> <<67, 79, 78, 70, 73, 71, 95, 83, 69, 67, 67, 79, 77, 80, 61, 121>>],
      [bucket |-> "security", desc |-> "dm-verity enabled",
       \* CONFIG_DM_VERITY=y
       config |-> <<67, 79, 78, 70, 73, 71, 95, 68, 77, 95, 86, 69, 82, 73, 84, 89, 61, 121>>],
      [bucket |-> "security", desc |-> "Network security enabled",
       \* CONFIG_SECURITY_NETWORK=y
       config |-> <<67, 79, 78, 70, 73, 71, 95, 83, 69, 67, 85, 82, 73, 84, 89, 95, 78, 69, 84, 87, 79, 82, 75, 61, 121>>],
      [bucket |-> "networking", desc |-> "IPv6 support",
       \* CONFIG_IPV6=y
       config |-> <<67, 79, 78, 70, 73, 71, 95, 73, 80, 86, 54, 61, 121>>],
      [bucket |-> "networking", desc |-> "Netfilter support",
       \* CONFIG_NETFILTER=y
       config |-> <<67, 79, 78, 70, 73, 71, 95, 78, 69, 84, 70, 73, 76, 84, 69, 82, 61, 121>>],
      [bucket |-> "networking", desc |-> "iptables support",
       \* CONFIG_IP_NF_IPTABLES=y
       config |-> <<67, 79, 78, 70, 73, 71, 95, 73, 80, 95, 78, 70, 95, 73, 80, 84, 65, 66, 76, 69, 83, 61, 121>>],
      [bucket |-> "networking", desc |-> "BBR congestion control",
       \* CONFIG_TCP_CONG_BBR=y
       config |-> <<67, 79, 78, 70, 73, 71, 95, 84, 67, 80, 95, 67, 79, 78, 71, 95, 66, 66, 82, 61, 121>>],
      [bucket |-> "filesystem", desc |-> "ext4 filesystem",
       \* CONFIG_EXT4_FS=y
       config |-> <<67, 79, 78, 70, 73, 71, 95, 69, 88, 84, 52, 95, 70, 83, 61, 121>>],
      [bucket |-> "filesystem", desc |-> "f2fs filesystem",
       \* CONFIG_F2FS_FS=y
       config |-> <<67, 79, 78, 70, 73, 71, 95, 70, 50, 70, 83, 95, 70, 83, 61, 121>>],
      [bucket |-> "filesystem", desc |-> "exFAT filesystem",
       \* CONFIG_EXFAT_FS=y
       config |-> <<67, 79, 78, 70, 73, 71, 95, 69, 88, 70, 65, 84, 95, 70, 83, 61, 121>>],
      [bucket |-> "filesystem", desc |-> "NTFS filesystem",
       \* CONFIG_NTFS_FS=y
       config |-> <<67, 79, 78, 70, 73, 71, 95, 78, 84, 70, 83, 95, 70, 83, 61, 121>>],
      [bucket |-> "performance", desc |-> "Symmetric multiprocessing",
       \* CONFIG_SMP=y
       config |-> <<67, 79, 78, 70, 73, 71, 95, 83, 77, 80, 61, 121>>],
      [bucket |-> "performance", desc |-> "Preemptible kernel",
       \* CONFIG_PREEMPT=y
       config |-> <<67, 79, 78, 70, 73, 71, 95, 80, 82, 69, 69, 77, 80, 84, 61, 121>>],
      [bucket |-> "performance", desc |-> "CPU frequency scaling",
       \* CONFIG_CPU_FREQ=y
       config |-> <<67, 79, 78, 70, 73, 71, 95, 67, 80, 85, 95, 70, 82, 69, 81, 61, 121>>],
      [bucket |-> "performance", desc |-> "CPU hotplug support",
       \* CONFIG_HOTPLUG_CPU=y
       config |-> <<67, 79, 78, 70, 73, 71, 95, 72, 79, 84, 80, 76, 85, 71, 95, 67, 80, 85, 61, 121>>],
      [bucket |-> "power", desc |-> "Power management",
       \* CONFIG_PM=y
       config |-> <<67, 79, 78, 70, 73, 71, 95, 80, 77, 61, 121>>],
      [bucket |-> "power", desc |-> "CPU idle support",
       \* CONFIG_CPU_IDLE=y
       config |-> <<67, 79, 78, 70, 73, 71, 95, 67, 80, 85, 95, 73, 68, 76, 69, 61, 121>>],
      [bucket |-> "power", desc |-> "Suspend support",
       \* CONFIG_SUSPEND=y
       config |-> <<67, 79, 78, 70, 73, 71, 95, 83, 85, 83, 80, 69, 78, 68, 61, 121>>],
      [bucket |-> "power", desc |-> "Hibernation support",
       \* CONFIG_HIBERNATION=y
       config |-> <<67, 79, 78, 70, 73, 71, 95, 72, 73, 66, 69, 82, 78, 65, 84, 73, 79, 78, 61, 121>>]
    >>

Buckets == {"security", "networking", "filesystem", "performance", "power"}

\* the descriptions of one bucket whose text occurs in config_text
BucketFeatures(config_text, bucket) ==
    [i \in 1..Len(SelectSeq(FeatureChecks,
                            LAMBDA c : c.bucket = bucket /\ Contains(config_text, c.config)))
        |-> SelectSeq(FeatureChecks,
                      LAMBDA c : c.bucket = bucket
                                 /\ Contains(config_text, c.config))[i].desc]

\* lines 627-648 on the text read back from config_file
FeaturesOf(config_text) ==
    [k \in {bk \in Buckets : BucketFeatures(config_text, bk) # <<>>} |->
        BucketFeatures(config_text, k)]

\* _analyze_config_features: {} when the file cannot be read
AnalyzeConfigFeatures(f, config_data) ==
    IF "config_file" \notin DOMAIN config_data THEN EmptyDict
    ELSE IF ~Exists(f, config_data.config_file) THEN EmptyDict
    ELSE FeaturesOf(f[config_data.config_file])

\* bytes.lower()
Lower(data) == [i \in 1..Len(data) |-> IF data[i] \in 65..90 THEN data[i] + 32 ELSE data[i]]

\* lines 668-675 on the lowered bytes
SecurityFlags(low) ==
    [selinux   |-> Contains(low, <<115, 101, 108, 105, 110, 117, 120>>),
     dm_verity |-> Contains(low, <<100, 109, 45, 118, 101, 114, 105, 116, 121>>)
                   \/ Contains(low, <<100, 109, 95, 118, 101, 114, 105, 116, 121>>),
     seccomp   |-> Contains(low, <<115, 101, 99, 99, 111, 109, 112>>),
     kaslr     |-> Contains(low, <<107, 97, 115, 108, 114>>)]

\* lines 656-661: the flags before the scan
NoFlags == [selinux |-> FALSE, dm_verity |-> FALSE, seccomp |-> FALSE, kaslr |-> FALSE]

\* _detect_security_features: the bare except keeps the initial flags
DetectSecurityFeatures(f, kernel_file) ==
    IF Exists(f, kernel_file) THEN SecurityFlags(Lower(f[kernel_file])) ELSE NoFlags

\* lines 506-513 on the lowered output of `file`; None when nothing matches
ArchitectureOf(output) ==
    IF Contains(output, <<97, 114, 109, 54, 52>>) \/ Contains(output, <<97, 97, 114, 99, 104, 54, 52>>) THEN "arm64"
    ELSE IF Contains(output, <<97, 114, 109>>) THEN "arm"
    ELSE IF Contains(output, <<120, 56, 54, 45, 54, 52>>) \/ Contains(output, <<120, 56, 54, 95, 54, 52>>) THEN "x86_64"
    ELSE IF Contains(output, <<120, 56, 54>>) \/ Contains(output, <<105, 51, 56, 54>>) THEN "x86"
    ELSE None

\* _detect_architecture: the bare except gives None when `file` cannot be run
DetectArchitecture(ran, stdout) ==
    IF ran THEN ArchitectureOf(Lower(stdout)) ELSE None

(***************************************************************************)
(* analyze_kernel.  The record holds path, size, sha256, timestamp, the    *)
(* version fields, compression, decompressed, decompressed_version,        *)
(* config, config_features and security_features.  strings_analysis and    *)
(* architecture, the outputs of the tools strings and file, are left out.  *)
(***************************************************************************)
\* hashlib.sha256 over the whole file: a collision-free digest of the bytes
Sha256(data) == <<"sha256", data>>

AnalysisFile == ExtractDir \o "/kernel_analysis.json"

\* d with d[key] = value added when present holds
SetIf(present, d, key, value) == IF present THEN Update(d, key :> value) ELSE d

\* lines 353-363: the analysis is saved and returned
SaveAnalysis(f, cmds, analysis) ==
    [raised |-> "none", ret |-> analysis,
     fs |-> WriteFile(f, AnalysisFile, [json |-> analysis]), cmds |-> cmds]

\* lines 342-351, with the outcome cfg of _extract_kernel_config
AnalyzeConfig(kernel_path, cmds, analysis, cfg) ==
    SaveAnalysis(cfg.fs, cmds,
        Update(SetIf(cfg.found,
                     SetIf(cfg.found, analysis, "config", cfg.ret),
                     "config_features", AnalyzeConfigFeatures(cfg.fs, cfg.ret)),
               "security_features" :> DetectSecurityFeatures(cfg.fs, kernel_path)))

\* line 332: _extract_kernel_version(Path(decompressed)), {} for None
DecompressedVersion(dec) ==
    IF dec.ret = None THEN EmptyDict ELSE ExtractKernelVersion(dec.fs[dec.ret])

\* lines 323-335, with the outcome dec of _decompress_kernel
AnalyzeCompressed(kernel_path, base, compression, dec) ==
    AnalyzeConfig(kernel_path, dec.cmds,
        SetIf(DOMAIN DecompressedVersion(dec) # {},
              SetIf(dec.ret # None,
                    SetIf(compression # None, base, "compression", compression),
                    "decompressed", dec.ret),
              "decompressed_version", DecompressedVersion(dec)),
        ExtractKernelConfig(dec.fs, dec.fs[kernel_path]))

\* lines 323-329, with the detected kind
AnalyzeSniffed(f, kernel_path, base, compression) ==
    AnalyzeCompressed(kernel_path, base, compression,
        IF compression # None
        THEN DecompressKernel(f, kernel_path, compression)
        ELSE [ret |-> None, raised |-> "none", fs |-> f, cmds |-> <<>>])

AnalyzeKernel(f, kernel_path, now) ==
    IF ~Exists(f, kernel_path)
    THEN [raised |-> "FileNotFoundError", ret |-> EmptyDict, fs |-> f, cmds |-> <<>>]
    ELSE AnalyzeSniffed(f, kernel_path,
             Update([path |-> kernel_path, size |-> Len(f[kernel_path]),
                     sha256 |-> Sha256(f[kernel_path]), timestamp |-> now],
                    ExtractKernelVersion(f[kernel_path])),
             DetectCompression(ReadAt(f[kernel_path], 0, SniffLen)))

(***************************************************************************)
(* _extract_manually.                                                      *)
(***************************************************************************)
\* kf.write(kernel_data[:1024*1024*16])
RawKernelCap == 16777216

GzipMagic == <<31, 139>>

\* `gunzip <path>.gz`: replaces the .gz file by the decompressed file; fails,
\* leaving the files as they are, on a bad stream or when the target exists
Gunzip(f, gz_path, out_path) ==
    IF StreamOk("gzip", f[gz_path]) /\ ~Exists(f, out_path)
    THEN [ok |-> TRUE,
          fs |-> WriteFile(RemoveFile(f, gz_path), out_path,
                           StreamPayload("gzip", f[gz_path]))]
    ELSE [ok |-> FALSE, fs |-> f]

\* lines 213-217
RawFailed(f, dir, cmds) ==
    [raised |-> "none",
     ret |-> [method |-> "failed", error |-> "Could not extract kernel",
              extract_dir |-> dir],
     fs |-> f, cmds |-> cmds, offsets |-> EmptyDict]

\* lines 203-211, with the outcome gz of gunzip
RawUnzipped(dir, gz) ==
    IF gz.ok
    THEN [raised |-> "none",
          ret |-> [method |-> "manual_raw",
                   components |-> ("kernel" :> (dir \o "/kernel")),
                   extract_dir |-> dir],
          fs |-> gz.fs, cmds |-> <<"gunzip">>, offsets |-> EmptyDict]
    ELSE RawFailed(gz.fs, dir, <<"gunzip">>)

\* a scan that takes the whole buffer as the kernel when no pair is found
RawFromGuess(f, data, dir, kernel_start) ==
    RawUnzipped(dir,
        Gunzip(WriteFile(f, dir \o "/kernel.gz",
                         Take(Drop(data, Max(kernel_start, 0)), RawKernelCap)),
               dir \o "/kernel.gz", dir \o "/kernel"))

\* lines 194-200, with kernel_start = data.find(b'\x1f\x8b')
RawFrom(f, data, dir, kernel_start) ==
    IF kernel_start = -1
    THEN RawFailed(f, dir, <<>>)
    ELSE RawUnzipped(dir,
             Gunzip(WriteFile(f, dir \o "/kernel.gz",
                              Take(Drop(data, kernel_start), RawKernelCap)),
                    dir \o "/kernel.gz", dir \o "/kernel"))

\* a scan that copies the buffer from its first byte
ExtractRawWhole(f, data, dir) ==
    RawFrom(f, data, dir, IF Find(data, GzipMagic, 0) = -1 THEN -1 ELSE 0)

\* lines 187-217: no signature, so look for an embedded gzip stream
ExtractRaw(f, data, dir) == RawFrom(f, data, dir, Find(data, GzipMagic, 0))

\* lines 235-236 divide by page_size: ZeroDivisionError when it is 0
PageSizeRaises(h) == h.page_size = 0

\* a test that also takes a segment of declared size 0
SegmentPresentOrEmpty(size) == size >= 0

\* a segment is extracted when its declared size is positive
SegmentPresent(size) == size > 0

\* f.seek(offset); data = f.read(size); open(path, 'wb').write(data), if size > 0
WriteSegment(f, data, path, offset, size) ==
    IF SegmentPresent(size) THEN WriteFile(f, path, ReadAt(data, offset, size)) ELSE f

\* the components dict of lines 238-281
Components(h, dir) ==
    [k \in (IF SegmentPresent(h.kernel_size) THEN {"kernel"} ELSE {})
           \cup (IF SegmentPresent(h.ramdisk_size) THEN {"ramdisk"} ELSE {})
           \cup (IF SegmentPresent(h.second_size) THEN {"second"} ELSE {})
           \cup {"config"} |->
        CASE k = "kernel"  -> dir \o "/kernel"
          [] k = "ramdisk" -> dir \o "/ramdisk.img"
          [] k = "second"  -> dir \o "/second"
          [] k = "config"  -> dir \o "/bootimg.cfg"]

\* lines 249-288, with the offsets o and boot_config
ExtractSegments(f, data, dir, h, o, boot_config) ==
    [raised |-> "none",
     ret |-> [method |-> "manual_android", components |-> Components(h, dir),
              boot_config |-> boot_config, extract_dir |-> dir],
     fs |-> WriteFile(
                WriteSegment(
                    WriteSegment(
                        WriteSegment(f, data, dir \o "/kernel",
                                     o.kernel_offset, h.kernel_size),
                        data, dir \o "/ramdisk.img", o.ramdisk_offset, h.ramdisk_size),
                    data, dir \o "/second", o.second_offset, h.second_size),
                dir \o "/bootimg.cfg", CfgText(boot_config)),
     cmds |-> <<>>, offsets |-> o]

\* lines 233-288, with the parsed header
ExtractParsed(f, data, dir, h) ==
    IF PageSizeRaises(h)
    THEN [raised |-> "ZeroDivisionError", ret |-> EmptyDict, fs |-> f, cmds |-> <<>>,
          offsets |-> EmptyDict]
    ELSE ExtractSegments(f, data, dir, h, Offsets(h), BootConfig(h))

\* lines 219-288: the header path
ExtractAndroid(f, data, dir) ==
    IF HeaderRaises(data)
    THEN [raised |-> "struct.error", ret |-> EmptyDict, fs |-> f, cmds |-> <<>>,
          offsets |-> EmptyDict]
    ELSE ExtractParsed(f, data, dir, ParseHeader(data))

\* magic != b'ANDROID!' selects the raw scan
IsAndroid(magic) == magic = BootMagic

ExtractManually(f, boot_path) ==
    IF IsAndroid(ReadAt(f[boot_path], 0, MagicLen))
    THEN ExtractAndroid(f, f[boot_path], ExtractPath(boot_path))
    ELSE ExtractRaw(f, f[boot_path], ExtractPath(boot_path))

(***************************************************************************)
(* bootimg.cfg as text: the parser shared by _extract_with_abootimg        *)
(* (lines 160-164) and _parse_boot_config.                                 *)
(***************************************************************************)
\* the first line end of text, text having one
FirstEnd(text) ==
    CHOOSE i \in 1..Len(text) :
        text[i] \in {10, 13} /\ \A j \in 1..(i - 1) : text[j] \notin {10, 13}

\* how many characters the line end at e takes: \r\n is one line end
EndLen(text, e) ==
    IF text[e] = 13 /\ e < Len(text) /\ text[e + 1] = 10 THEN 2 ELSE 1

RECURSIVE SplitLines(_)
\* `for line in f` in text mode: lines end at \n, \r\n or \r
SplitLines(text) ==
    IF text = <<>> THEN <<>>
    ELSE IF \A i \in 1..Len(text) : text[i] \notin {10, 13} THEN <<text>>
    ELSE <<SubSeq(text, 1, FirstEnd(text) - 1)>>
         \o SplitLines(Drop(text, FirstEnd(text) - 1 + EndLen(text, FirstEnd(text))))

\* key, value = stripped.split('=', 1); config[key.strip()] = value.strip()
SetFromLine(config, stripped, eq) ==
    DictSet(config, Strip(Take(stripped, eq), Whitespace),
            Strip(Drop(stripped, eq + 1), Whitespace))

\* if '=' in line: key, value = line.strip().split('=', 1); ...
ParseLine(config, line) ==
    IF \A i \in 1..Len(line) : line[i] # 61 THEN config
    ELSE SetFromLine(config, Strip(line, Whitespace),
                     Find(Strip(line, Whitespace), <<61>>, 0))

RECURSIVE ParseLines(_, _)
ParseLines(config, lines) ==
    IF lines = <<>> THEN config
    ELSE ParseLines(ParseLine(config, Head(lines)), Tail(lines))

\* _parse_boot_config on the text of the file
ParseBootConfig(text) == ParseLines(<<>>, SplitLines(text))

HasKey(config, key) == \E i \in 1..Len(config) : config[i].key = key

Lookup(config, key) == config[CHOOSE i \in 1..Len(config) : config[i].key = key].value

(***************************************************************************)
(* The external tool abootimg, and _extract_with_abootimg.                 *)
(***************************************************************************)
\* what `abootimg -x` accepts: a complete header with a positive page size
AbootimgAccepts(data) ==
    /\ Len(data) >= HeaderLen
    /\ Take(data, MagicLen) = BootMagic
    /\ ParseHeader(data).page_size > 0

CfgLine(key, value) == key \o <<32, 61, 32>> \o value \o <<10>>

\* the bootimg.cfg that `abootimg -x` writes for an image of size bytes
AbootimgCfg(h, size) ==
    CfgLine(<<98, 111, 111, 116, 115, 105, 122, 101>>, Hex(size))
    \o CfgLine(<<112, 97, 103, 101, 115, 105, 122, 101>>, Hex(h.page_size))
    \o CfgLine(<<107, 101, 114, 110, 101, 108, 97, 100, 100, 114>>, Hex(h.kernel_addr))
    \o CfgLine(<<114, 97, 109, 100, 105, 115, 107, 97, 100, 100, 114>>, Hex(h.ramdisk_addr))
    \o CfgLine(<<115, 101, 99, 111, 110, 100, 97, 100, 100, 114>>, Hex(h.second_addr))
    \o CfgLine(<<116, 97, 103, 115, 97, 100, 100, 114>>, Hex(h.tags_addr))
    \o CfgLine(<<110, 97, 109, 101>>, h.name)
    \o CfgLine(<<99, 109, 100, 108, 105, 110, 101>>, h.cmdline)

\* `abootimg -x <image>` in dir: bootimg.cfg, zImage, initrd.img, stage2.img
AbootimgFiles(f, data, dir, h, o) ==
    WriteSegment(
        WriteFile(
            WriteFile(
                WriteFile(f, dir \o "/bootimg.cfg", AbootimgCfg(h, Len(data))),
                dir \o "/zImage", ReadAt(data, o.kernel_offset, h.kernel_size)),
            dir \o "/initrd.img", ReadAt(data, o.ramdisk_offset, h.ramdisk_size)),
        data, dir \o "/stage2.img", o.second_offset, h.second_size)

AbootimgExtract(f, data, dir) ==
    AbootimgFiles(f, data, dir, ParseHeader(data), Offsets(ParseHeader(data)))

\* lines 144-154: the files looked for, a later kernel name replacing an earlier
AbootimgNames ==
    <<[key |-> "kernel", file |-> "/zImage"], [key |-> "kernel", file |-> "/Image"],
      [key |-> "ramdisk", file |-> "/initrd.img"], [key |-> "second", file |-> "/second"],
      [key |-> "dtb", file |-> "/dtb"], [key |-> "config", file |-> "/bootimg.cfg"]>>

\* the last entry of AbootimgNames for key whose file exists
FoundFile(g, dir, key) ==
    AbootimgNames[CHOOSE i \in 1..Len(AbootimgNames) :
        /\ AbootimgNames[i].key = key
        /\ Exists(g, dir \o AbootimgNames[i].file)
        /\ \A j \in (i + 1)..Len(AbootimgNames) :
              ~(AbootimgNames[j].key = key /\ Exists(g, dir \o AbootimgNames[j].file))].file

AbootimgComponents(g, dir) ==
    [k \in {AbootimgNames[i].key : i \in {j \in 1..Len(AbootimgNames) :
                                            Exists(g, dir \o AbootimgNames[j].file)}} |->
        dir \o FoundFile(g, dir, k)]

\* lines 144-172, on the files g the tool left
AbootimgResult(g, dir) ==
    [raised |-> "none",
     ret |-> [method |-> "abootimg", components |-> AbootimgComponents(g, dir),
              boot_config |-> ParseBootConfig(g[dir \o "/bootimg.cfg"]),
              extract_dir |-> dir],
     fs |-> g, cmds |-> <<"abootimg -x", "abootimg -i">>, offsets |-> EmptyDict]

\* lines 128-176; toolOk: whether this run of the tool exits with status 0
ExtractWithAbootimg(f, boot_path, toolOk) ==
    IF ~(toolOk /\ AbootimgAccepts(f[boot_path]))
    THEN \* CalledProcessError: caught, and {} returned
         [raised |-> "none", ret |-> EmptyDict, fs |-> f,
          cmds |-> <<"abootimg -x">>, offsets |-> EmptyDict]
    ELSE AbootimgResult(AbootimgExtract(f, f[boot_path], ExtractPath(boot_path)),
                        ExtractPath(boot_path))

(***************************************************************************)
(* extract_boot_image.                                                     *)
(***************************************************************************)
InfoFile == ExtractDir \o "/extraction_info.json"

\* the branch of lines 105-112
UseAbootimg(t) == t.abootimg

\* lines 119-126: the result is saved and returned
SaveInfo(f, cmds, offsets, ticks, info) ==
    [raised |-> "none", ret |-> info, fs |-> WriteFile(f, InfoFile, [json |-> info]),
     cmds |-> cmds, offsets |-> offsets, ticks |-> ticks]

\* lines 115-126, with the outcome a of analyze_kernel
ExtractAnalyzed(m, info, a) ==
    IF a.raised # "none"
    THEN [raised |-> a.raised, ret |-> EmptyDict, fs |-> a.fs,
          cmds |-> m.cmds \o a.cmds, offsets |-> m.offsets, ticks |-> 1]
    ELSE SaveInfo(a.fs, m.cmds \o a.cmds, m.offsets, 2,
                  Update(info, "kernel_info" :> a.ret))

\* lines 114-126, with extracted_info after update()
ExtractInfo(m, info, now) ==
    IF "kernel" \in DOMAIN info.components
    THEN ExtractAnalyzed(m, info, AnalyzeKernel(m.fs, info.components["kernel"], now + 1))
    ELSE SaveInfo(m.fs, m.cmds, m.offsets, 1, info)

\* lines 98-126, with the outcome m of the extraction method
ExtractWith(boot_img_path, now, m) ==
    IF m.raised # "none"
    THEN [raised |-> m.raised, ret |-> EmptyDict, fs |-> m.fs, cmds |-> m.cmds,
          offsets |-> m.offsets, ticks |-> 1]
    ELSE ExtractInfo(m,
             Update([boot_image |-> boot_img_path, timestamp |-> now,
                     components |-> EmptyDict], m.ret),
             now)

ExtractBootImage(f, t, boot_img_path, now, toolOk) ==
    IF ~Exists(f, boot_img_path)
    THEN [raised |-> "FileNotFoundError", ret |-> EmptyDict, fs |-> f,
          cmds |-> <<>>, offsets |-> EmptyDict, ticks |-> 0]
    ELSE ExtractWith(boot_img_path, now,
             IF UseAbootimg(t)
             THEN ExtractWithAbootimg(f, boot_img_path, toolOk)
             ELSE ExtractManually(f, boot_img_path))

(***************************************************************************)
(* The external encoders, and repack_boot_image.                           *)
(***************************************************************************)
\* b padded with zeros to the next multiple of page
PadToPage(b, page) == b \o Zeros((page - (Len(b) % page)) % page)

\* text as a fixed-width, null-padded field (truncated when too long)
FixedField(text, width) == Take(text, width) \o Zeros(width - Min(Len(text), width))

\* the 576 bytes of a header with the fields of h
HeaderBytes(h) ==
    BootMagic
    \o Pack32(h.kernel_size)    \o Pack32(h.kernel_addr)
    \o Pack32(h.ramdisk_size)   \o Pack32(h.ramdisk_addr)
    \o Pack32(h.second_size)    \o Pack32(h.second_addr)
    \o Pack32(h.tags_addr)      \o Pack32(h.page_size)
    \o Pack32(h.header_version) \o Pack32(h.os_version)
    \o FixedField(h.name, NameLen) \o FixedField(h.cmdline, CmdlineLen)

\* the container an encoder writes: the header page, then each segment padded
EncodeImage(page, kernel, ramdisk, second, name, cmdline) ==
    PadToPage(HeaderBytes(
        [kernel_size  |-> Len(kernel),  kernel_addr  |-> 268468224,
         ramdisk_size |-> Len(ramdisk), ramdisk_addr |-> 285212672,
         second_size  |-> Len(second),  second_addr  |-> 284164096,
         tags_addr |-> 268435712, page_size |-> page,
         header_version |-> 0, os_version |-> 0,
         name |-> name, cmdline |-> cmdline]), page)
    \o PadToPage(kernel, page) \o PadToPage(ramdisk, page) \o PadToPage(second, page)

\* the value of a digit character, or -1
DigitValue(c) ==
    IF \E i \in 1..16 : HexDigits[i] = c
    THEN (CHOOSE i \in 1..16 : HexDigits[i] = c) - 1 ELSE -1

RECURSIVE DigitsValue(_, _)
DigitsValue(text, base) ==
    IF text = <<>> THEN 0
    ELSE DigitsValue(SubSeq(text, 1, Len(text) - 1), base) * base
         + DigitValue(text[Len(text)])

\* the digits of a number of at most 5 digits in base, else -1
ParseDigits(digits, base) ==
    IF /\ digits # <<>>
       /\ Len(digits) <= 5
       /\ \A i \in 1..Len(digits) : DigitValue(digits[i]) \in 0..(base - 1)
    THEN DigitsValue(digits, base) ELSE -1

\* int(text, 0) for the page sizes an encoder takes: decimal or 0x hex, else -1
ParsePageSize(text) ==
    IF Len(text) > 2 /\ Take(text, 2) = <<48, 120>>
    THEN ParseDigits(Drop(text, 2), 16) ELSE ParseDigits(text, 10)

\* the page size an encoder writes when none is given
DefaultPageSize == 2048

\* the page sizes an encoder takes
EncoderPageSizes == {2048, 4096, 8192, 16384}

\* the files a command line names all exist
ArgsExist(f, args) ==
    \A k \in DOMAIN args \cap {"kernel", "ramdisk", "second", "dtb", "config"} :
        Exists(f, args[k])

ArgBytes(f, args, k) == IF k \in DOMAIN args THEN f[args[k]] ELSE <<>>

\* `mkbootimg --kernel .. [--ramdisk ..] [--second ..] [--cmdline ..]
\*  [--pagesize ..] --output ..`
MkbootimgPage(args) ==
    IF "pagesize" \in DOMAIN args THEN ParsePageSize(args["pagesize"]) ELSE DefaultPageSize

MkbootimgAccepts(f, args) ==
    ArgsExist(f, args) /\ MkbootimgPage(args) \in EncoderPageSizes

MkbootimgImage(f, args) ==
    EncodeImage(MkbootimgPage(args), f[args["kernel"]], ArgBytes(f, args, "ramdisk"),
                ArgBytes(f, args, "second"), <<>>,
                IF "cmdline" \in DOMAIN args THEN args["cmdline"] ELSE <<>>)

\* `abootimg --create <output> -k .. [-r ..] [-s ..] [-f ..]`: the page size
\* and the text fields come from the entries of the -f file it knows
AbootimgCreateCfg(f, args) ==
    IF "config" \in DOMAIN args THEN ParseBootConfig(f[args["config"]]) ELSE <<>>

CfgOr(cfg, key, default) == IF HasKey(cfg, key) THEN Lookup(cfg, key) ELSE default

CfgPage(cfg) ==
    IF HasKey(cfg, <<112, 97, 103, 101, 115, 105, 122, 101>>)
    THEN ParsePageSize(Lookup(cfg, <<112, 97, 103, 101, 115, 105, 122, 101>>))
    ELSE DefaultPageSize

AbootimgCreateAccepts(f, args) ==
    /\ ArgsExist(f, args)
    /\ "ramdisk" \in DOMAIN args
    /\ CfgPage(AbootimgCreateCfg(f, args)) \in EncoderPageSizes

AbootimgCreateFrom(f, args, cfg) ==
    EncodeImage(CfgPage(cfg), f[args["kernel"]],
                ArgBytes(f, args, "ramdisk"), ArgBytes(f, args, "second"),
                CfgOr(cfg, <<110, 97, 109, 101>>, <<>>),
                CfgOr(cfg, <<99, 109, 100, 108, 105, 110, 101>>, <<>>))

AbootimgCreateImage(f, args) == AbootimgCreateFrom(f, args, AbootimgCreateCfg(f, args))

\* a check that lets a set without kernel through
MissingKernelNever(components) == FALSE

\* line 735: 'kernel' not in components
MissingKernel(components) == "kernel" \notin DOMAIN components

\* _parse_boot_config(path): {} when the file cannot be read
ParseBootConfigFile(f, path) ==
    IF Exists(f, path) THEN ParseBootConfig(f[path]) ELSE <<>>

\* lines 754-759: the options taken from the parsed config
ConfigArgs(config) ==
    [k \in {o \in {"cmdline", "base", "pagesize"} :
               HasKey(config, CASE o = "cmdline"  -> <<99, 109, 100, 108, 105, 110, 101>>
                                [] o = "base"     -> <<98, 97, 115, 101>>
                                [] o = "pagesize" -> <<112, 97, 103, 101, 115, 105, 122, 101>>)}
        |-> Lookup(config, CASE k = "cmdline"  -> <<99, 109, 100, 108, 105, 110, 101>>
                             [] k = "base"     -> <<98, 97, 115, 101>>
                             [] k = "pagesize" -> <<112, 97, 103, 101, 115, 105, 122, 101>>)]

\* lines 752-759
MkbootimgConfigArgs(f, components) ==
    IF "config" \in DOMAIN components
    THEN ConfigArgs(ParseBootConfigFile(f, components["config"])) ELSE EmptyDict

\* the components a command line carries, of those given
PathArgs(components, keys) == [k \in DOMAIN components \cap keys |-> components[k]]

\* lines 761-768 and 784-788: the tool is run on args and writes image
RunEncoder(f, output_path, cmd, args, accepted, image) ==
    IF accepted
    THEN [raised |-> "none", ret |-> output_path,
          fs |-> WriteFile(f, output_path, image), cmds |-> <<cmd>>, args |-> args]
    ELSE \* CalledProcessError: caught, and "" returned at line 793
         [raised |-> "none", ret |-> "", fs |-> f, cmds |-> <<cmd>>, args |-> args]

RunMkbootimg(f, output_path, args, toolOk) ==
    RunEncoder(f, output_path, "mkbootimg", args,
               toolOk /\ MkbootimgAccepts(f, args),
               IF toolOk /\ MkbootimgAccepts(f, args) THEN MkbootimgImage(f, args) ELSE <<>>)

RunAbootimgCreate(f, output_path, args, toolOk) ==
    RunEncoder(f, output_path, "abootimg --create", args,
               toolOk /\ AbootimgCreateAccepts(f, args),
               IF toolOk /\ AbootimgCreateAccepts(f, args)
               THEN AbootimgCreateImage(f, args) ELSE <<>>)

\* lines 719-793; toolOk: whether this run of the tool exits with status 0
RepackBootImage(f, t, components, output_path, toolOk) ==
    IF MissingKernel(components)
    THEN [raised |-> "ValueError", ret |-> "", fs |-> f, cmds |-> <<>>, args |-> EmptyDict]
    ELSE IF t.mkbootimg
    THEN RunMkbootimg(f, output_path,
             Update(PathArgs(components, {"kernel", "ramdisk", "second", "dtb"}),
                    MkbootimgConfigArgs(f, components)), toolOk)
    ELSE IF t.abootimg
    THEN RunAbootimgCreate(f, output_path,
             PathArgs(components, {"kernel", "ramdisk", "second", "config"}), toolOk)
    ELSE [raised |-> "none", ret |-> "", fs |-> f, cmds |-> <<>>, args |-> EmptyDict]

(***************************************************************************)
(* MasterControl (src/control_system/master_control.py).  control holds    *)
(* the fields mode, device_info and tools_available of the object, the     *)
(* place pc the run loop has reached, the last accepted menu choice and    *)
(* what the last handler showed; master_config.json lives in fs.           *)
(***************************************************************************)
\* the keys of tools_available, in the order of lines 64-70
ToolIds ==
    <<
      \* 'partition_guardian'
      <<112, 97, 114, 116, 105, 116, 105, 111, 110, 95, 103, 117, 97, 114, 100, 105, 97, 110>>,
      \* 'recovery_manager'
      <<114, 101, 99, 111, 118, 101, 114, 121, 95, 109, 97, 110, 97, 103, 101, 114>>,
      \* 'device_probe'
      <<100, 101, 118, 105, 99, 101, 95, 112, 114, 111, 98, 101>>,
      \* 'boot_guardian'
      <<98, 111, 111, 116, 95, 103, 117, 97, 114, 100, 105, 97, 110>>,
      \* 'rom_validator'
      <<114, 111, 109, 95, 118, 97, 108, 105, 100, 97, 116, 111, 114>>,
      \* 'flash_auditor'
      <<102, 108, 97, 115, 104, 95, 97, 117, 100, 105, 116, 111, 114>>,
      \* 'edl_rescue'
      <<101, 100, 108, 95, 114, 101, 115, 99, 117, 101>>
    >>

ToolsDir == "xda-toolkit"

ControlConfigFile == ToolsDir \o "/master_config.json"

\* the scripts _check_tools looks for, in the order of lines 109-115
ToolScripts ==
    <<"xda-toolkit/partition_guardian.py",
      "xda-toolkit/recovery_manager.py",
      "xda-toolkit/device_probe.py",
      "xda-toolkit/boot_guardian.py",
      "xda-toolkit/rom_validator.py",
      "xda-toolkit/flash_auditor.py",
      "xda-toolkit/edl_rescue.py">>

\* _check_tools: a tool is available when its script exists in tools_dir
CheckTools(f) ==
    [id \in {ToolIds[i] : i \in 1..Len(ToolIds)} |->
        \E i \in 1..Len(ToolIds) : ToolIds[i] = id /\ Exists(f, ToolScripts[i])]

\* str.replace(old, new) for strings of one character
Replace(text, old, new) == [i \in 1..Len(text) |-> IF text[i] = old THEN new ELSE text[i]]

\* tool_name.lower().replace(' ', '_')
ToolKey(tool_name) == Replace(Lower(tool_name), 32, 95)

\* self.tools_available.get(key, False)
GetAvailable(tools_available, key) ==
    IF key \in DOMAIN tools_available THEN tools_available[key] ELSE FALSE

\* the name run() passes to launch_tool for a menu choice
LaunchName(choice) ==
    CASE choice = "5" -> <<80, 97, 114, 116, 105, 116, 105, 111, 110, 71, 117, 97, 114, 100, 105, 97, 110>>  \* "PartitionGuardian"
      [] choice = "6" -> <<82, 101, 99, 111, 118, 101, 114, 121, 77, 97, 110, 97, 103, 101, 114>>  \* "RecoveryManager"
      [] choice = "7" -> <<68, 101, 118, 105, 99, 101, 80, 114, 111, 98, 101>>  \* "DeviceProbe"
      [] choice = "8" -> <<66, 111, 111, 116, 71, 117, 97, 114, 100, 105, 97, 110>>  \* "BootGuardian"
      [] choice = "9" -> <<82, 79, 77, 86, 97, 108, 105, 100, 97, 116, 111, 114>>  \* "ROMValidator"
      [] choice = "10" -> <<70, 108, 97, 115, 104, 65, 117, 100, 105, 116, 111, 114>>  \* "FlashAuditor"
      [] choice = "11" -> <<69, 68, 76, 32, 82, 101, 115, 99, 117, 101>>  \* "EDL Rescue"

\* the key whose flag main_menu displays next to a menu choice
MenuTool(choice) ==
    CASE choice = "5" -> ToolIds[1]
      [] choice = "6" -> ToolIds[2]
      [] choice = "7" -> ToolIds[3]
      [] choice = "8" -> ToolIds[4]
      [] choice = "9" -> ToolIds[5]
      [] choice = "10" -> ToolIds[6]
      [] choice = "11" -> ToolIds[7]

\* the device_info the setup wizard fills in
DetectedDevice ==
    [model |-> "Example Device", codename |-> "example",
     android_version |-> "14", bootloader_status |-> "Unknown"]

\* _load_config: mode and device_info from the file, when it exists
LoadedMode(f) ==
    IF Exists(f, ControlConfigFile) /\ "mode" \in DOMAIN f[ControlConfigFile].json
    THEN f[ControlConfigFile].json.mode ELSE "beginner"

LoadedDeviceInfo(f) ==
    IF Exists(f, ControlConfigFile) /\ "device_info" \in DOMAIN f[ControlConfigFile].json
    THEN f[ControlConfigFile].json.device_info ELSE EmptyDict

\* _save_config at the time now
SaveConfig(f, c, now) ==
    WriteFile(f, ControlConfigFile,
              [json |-> [mode |-> c.mode, device_info |-> c.device_info,
                         last_updated |-> now]])

\* 'advanced' if self.mode == 'beginner' else 'beginner'
NewMode(mode) == IF mode = "beginner" THEN "advanced" ELSE "beginner"

\* how many items the safety checkpoint asks about
SafetyItems == 5

(***************************************************************************)
(* The inputs of the model.                                                *)
(***************************************************************************)
\* page sizes up to 2^MaxPageLog, and segment sizes up to MaxSize
MaxPageLog == 11

MaxSize == 1000000000

\* calls that read the clock are made while it is below MaxClock
MaxClock == 3

\* at most MaxTail bytes follow a signature prefix in a kernel buffer
MaxTail == 2

RECURSIVE Pow2(_)
Pow2(k) == IF k = 0 THEN 1 ELSE 2 * Pow2(k - 1)

PageSizes == {0, 3, 1000} \cup {Pow2(k) : k \in 0..MaxPageLog}

Sizes == {0, 1, 3, 5, 100, 4096, MaxSize}

\* 'b' and 'a=1'
SampleName == <<98>>

SampleCmdline == <<97, 61, 49>>

SampleHeader(page_size, kernel_size, ramdisk_size, second_size) ==
    [kernel_size  |-> kernel_size,  kernel_addr  |-> 32768,
     ramdisk_size |-> ramdisk_size, ramdisk_addr |-> 16777216,
     second_size  |-> second_size,  second_addr  |-> 0,
     tags_addr |-> 256, page_size |-> page_size,
     header_version |-> 0, os_version |-> 0,
     name |-> SampleName, cmdline |-> SampleCmdline]

\* the bytes that follow the header in a crafted image
SampleBody == <<201, 202, 203, 204, 205, 206, 207, 208, 209, 210, 211, 212>>

\* a valid gzip stream of the model, and a rejected one
GzipOk == <<31, 139, 8, 76, 105, 110>>

GzipBad == <<31, 139, 0, 76>>

\* images with the signature and every combination of header fields
CraftedImages ==
    {HeaderBytes(SampleHeader(p, k, r, s)) \o SampleBody :
        p \in PageSizes, k \in Sizes, r \in Sizes, s \in {0, 1}}

\* images cut inside or right after the header
TruncPoints == {8, 9, 12, 47, 48, 64, 575, 576}

TruncatedImages ==
    {Take(HeaderBytes(SampleHeader(p, k, 100, 1)), n) :
        p \in {0, 4, 2048}, k \in {0, 1, 4096}, n \in TruncPoints}

\* images as an encoder lays them out
EncodedImages ==
    {EncodeImage(DefaultPageSize, k, r, s, SampleName, SampleCmdline) :
        k \in {GzipOk, <<7, 7, 7>>}, r \in {<<>>, <<9, 9>>}, s \in {<<>>, <<5>>}}

\* images without the signature
RawImages ==
    {<<1, 2, 3>>, Zeros(600), Zeros(512) \o GzipOk, Zeros(512) \o GzipBad,
     GzipOk \o Zeros(4), <<65, 78, 68, 82, 79, 73, 68, 0, 31, 139, 8, 1>>}

InputImages == CraftedImages \cup TruncatedImages \cup EncodedImages \cup RawImages

\* kernel buffers: every prefix of every signature, then a short tail
TailBytes == {0, 8, 31}

RECURSIVE Tails(_)
Tails(n) ==
    IF n = 0 THEN {<<>>}
    ELSE Tails(n - 1) \cup {Append(t, b) : t \in Tails(n - 1), b \in TailBytes}

SignatureBufs ==
    {Take(Signature(k), n) \o t : k \in Kinds, n \in 0..6, t \in Tails(MaxTail)}

\* texts of an embedded configuration
ConfigTexts ==
    {\* 'CONFIG_PM=y\n'
     <<67, 79, 78, 70, 73, 71, 95, 80, 77, 61, 121, 10>>,
     \* '# CONFIG_PM=y\n'
     <<35, 32, 67, 79, 78, 70, 73, 71, 95, 80, 77, 61, 121, 10>>,
     \* 'CONFIG_PM=yes\n'
     <<67, 79, 78, 70, 73, 71, 95, 80, 77, 61, 121, 101, 115, 10>>,
     \* 'XCONFIG_PM=y\n'
     <<88, 67, 79, 78, 70, 73, 71, 95, 80, 77, 61, 121, 10>>,
     \* 'CONFIG_PM=n\n'
     <<67, 79, 78, 70, 73, 71, 95, 80, 77, 61, 110, 10>>,
     \* ' CONFIG_PM = y\n'
     <<32, 67, 79, 78, 70, 73, 71, 95, 80, 77, 32, 61, 32, 121, 10>>,
     \* 'CONFIG_SMP=y\nCONFIG_PM=y\n'
     <<67, 79, 78, 70, 73, 71, 95, 83, 77, 80, 61, 121, 10, 67, 79, 78, 70, 73, 71, 95, 80, 77, 61, 121, 10>>,
     \* 'CONFIG_SECURITY_SELINUX=y\n# CONFIG_SMP=y\n'
     <<67, 79, 78, 70, 73, 71, 95, 83, 69, 67, 85, 82, 73, 84, 89, 95, 83, 69, 76, 73, 78, 85, 88, 61, 121, 10, 35, 32, 67, 79, 78, 70, 73, 71, 95, 83, 77, 80, 61, 121, 10>>,
     \* 'A=1\nA=2\n=\n'
     <<65, 61, 49, 10, 65, 61, 50, 10, 61, 10>>,
     \* ' A=1\n\n# B=2\nA=2=3 \n'
     <<32, 65, 61, 49, 10, 10, 35, 32, 66, 61, 50, 10, 65, 61, 50, 61, 51, 32, 10>>}

\* a kernel that embeds data between the two markers
EmbedConfig(lead, config_data) == lead \o StartMarker \o config_data \o EndMarker

\* kernels with both markers, with the start marker only, and with the end
\* marker first
ConfigBufs ==
    {EmbedConfig(lead, GzipMagic \o <<8>> \o text) :
        lead \in {<<>>, <<0, 0>>}, text \in ConfigTexts}
    \cup {EmbedConfig(<<>>, d) : d \in {<<>>, GzipBad, <<1>>}}
    \cup {EndMarker \o EmbedConfig(<<>>, GzipMagic \o <<8>> \o text) \o tail :
             text \in ConfigTexts, tail \in {<<>>, EndMarker}}
    \cup {lead \o StartMarker \o GzipMagic \o <<8>> \o text \o tail :
             lead \in {<<>>, EndMarker}, text \in ConfigTexts,
             tail \in {<<>>, <<0>>, <<73, 75, 67, 70, 71, 95, 69>>}}

\* 'Linux version 4.9-x (b)' and strings close to a match
VersionTexts ==
    {\* 'Linux version 4.9-x (b)'
     <<76, 105, 110, 117, 120, 32, 118, 101, 114, 115, 105, 111, 110, 32, 52, 46, 57, 45, 120, 32, 40, 98, 41>>,
     \* 'Linux version 4.9 (b)'
     <<76, 105, 110, 117, 120, 32, 118, 101, 114, 115, 105, 111, 110, 32, 52, 46, 57, 32, 40, 98, 41>>,
     \* 'Linux version 4.9-x  (b'
     <<76, 105, 110, 117, 120, 32, 118, 101, 114, 115, 105, 111, 110, 32, 52, 46, 57, 45, 120, 32, 32, 40, 98>>,
     \* 'Linux version .-+\t(()'
     <<76, 105, 110, 117, 120, 32, 118, 101, 114, 115, 105, 111, 110, 32, 46, 45, 43, 9, 40, 40, 41>>,
     \* 'Linux version 3.18.2-g1 (a@b) (gcc)'
     <<76, 105, 110, 117, 120, 32, 118, 101, 114, 115, 105, 111, 110, 32, 51, 46, 49, 56, 46, 50, 45, 103, 49, 32, 40, 97, 64, 98, 41, 32, 40, 103, 99, 99, 41>>,
     \* 'Linux version 1-2 (' 0xFF ')'
     <<76, 105, 110, 117, 120, 32, 118, 101, 114, 115, 105, 111, 110, 32, 49, 45, 50, 32, 40>> \o <<255, 41>>}

\* kernels with a version string, stored or inside a gzip stream
VersionBufs ==
    {lead \o text \o tail :
        lead \in {<<>>, <<0>>, GzipMagic \o <<8>>, GzipMagic \o <<0>>},
        text \in VersionTexts, tail \in {<<>>, <<0>>}}

\* kernels with the strings the security scan looks for
SecurityBufs ==
    {<<83, 69, 76, 105, 110, 117, 120>>, <<100, 109, 45, 118, 101, 114, 105, 116, 121>>, <<68, 77, 95, 86, 69, 82, 73, 84, 89>>, <<115, 101, 99, 99, 111, 109, 112>>, <<75, 65, 83, 76, 82>>, <<107, 97, 115, 108, 114, 32, 115, 101, 99, 99, 111, 109, 112>>, <<115, 101, 108, 105, 110, 117>>,
     GzipMagic \o <<8>> \o <<115, 101, 108, 105, 110, 117, 120>>}

KernelBufs == SignatureBufs \cup ConfigBufs \cup VersionBufs \cup SecurityBufs

ToolSets == [abootimg : BOOLEAN, mkbootimg : BOOLEAN]

(***************************************************************************)
(* The actions: one per method.                                            *)
(***************************************************************************)
\* the contents of path before the call, <<>> when it did not exist
Before(path) == IF Exists(fs, path) THEN fs[path] ELSE <<>>

ExtractEffect(path, r) ==
    /\ fs' = r.fs
    /\ clock' = clock + r.ticks
    /\ invoked' = r.cmds
    /\ res' = [op |-> "extract", path |-> path, raised |-> r.raised, ret |-> r.ret,
               offsets |-> r.offsets, input |-> Before(path)]

\* extract_boot_image(path)
ExtractAct ==
    /\ clock < MaxClock
    /\ \E path \in ImageNames,
          toolOk \in (IF tools.abootimg THEN BOOLEAN ELSE {TRUE}) :
          ExtractEffect(path, ExtractBootImage(fs, tools, path, clock, toolOk))
    /\ UNCHANGED <<tools, workers, control>>

KernelPaths == {"kernel.img"}

AnalyzeEffect(path, r) ==
    /\ fs' = r.fs
    /\ clock' = clock + 1
    /\ invoked' = r.cmds
    /\ res' = [op |-> "analyze", path |-> path, raised |-> r.raised, ret |-> r.ret]

\* analyze_kernel(path)
AnalyzeAct ==
    /\ clock < MaxClock
    /\ \E path \in KernelPaths : AnalyzeEffect(path, AnalyzeKernel(fs, path, clock))
    /\ UNCHANGED <<tools, workers, control>>

\* _detect_compression(path)
DetectAct ==
    /\ \E path \in KernelPaths :
          /\ Exists(fs, path)
          /\ res' = [op |-> "detect", path |-> path, raised |-> "none",
                     ret |-> DetectCompression(ReadAt(fs[path], 0, SniffLen))]
    /\ invoked' = <<>>
    /\ UNCHANGED <<tools, fs, clock, workers, control>>

DecompressEffect(path, kind, r) ==
    /\ fs' = r.fs
    /\ invoked' = r.cmds
    /\ res' = [op |-> "decompress", path |-> path, kind |-> kind,
               raised |-> r.raised, ret |-> r.ret]

DecompressAs(path, kind) ==
    /\ kind # None
    /\ DecompressEffect(path, kind, DecompressKernel(fs, path, kind))

\* _decompress_kernel(path, compression), with the detected kind
DecompressAct ==
    /\ \E path \in KernelPaths :
          /\ Exists(fs, path)
          /\ DecompressAs(path, DetectCompression(ReadAt(fs[path], 0, SniffLen)))
    /\ UNCHANGED <<tools, clock, workers, control>>

\* the paths handed to the security scan: the kernel, and a file that is not there
ScanPaths == KernelPaths \cup {"missing.img"}

\* _detect_security_features(path)
SecurityAct ==
    /\ \E path \in ScanPaths :
          res' = [op |-> "security", path |-> path, raised |-> "none",
                  ret |-> DetectSecurityFeatures(fs, path)]
    /\ invoked' = <<>>
    /\ UNCHANGED <<tools, fs, clock, workers, control>>

ConfigEffect(path, r, slice) ==
    /\ fs' = r.fs
    /\ res' = [op |-> "config", path |-> path, raised |-> "none",
               found |-> r.found, ret |-> r.ret, slice |-> slice, data |-> fs[path]]

\* _extract_kernel_config(path)
ConfigAct ==
    /\ \E path \in KernelPaths :
          /\ Exists(fs, path)
          /\ ConfigEffect(path, ExtractKernelConfig(fs, fs[path]), ConfigSlice(fs[path]))
    /\ invoked' = <<>>
    /\ UNCHANGED <<tools, clock, workers, control>>

\* descriptions `file` prints for a kernel
FileOutputs ==
    {\* 'kernel.img: data'
     <<107, 101, 114, 110, 101, 108, 46, 105, 109, 103, 58, 32, 100, 97, 116, 97>>,
     \* 'kernel.img: Linux kernel ARM64 boot executable Image'
     <<107, 101, 114, 110, 101, 108, 46, 105, 109, 103, 58, 32, 76, 105, 110, 117, 120, 32, 107, 101, 114, 110, 101, 108, 32, 65, 82, 77, 54, 52, 32, 98, 111, 111, 116, 32, 101, 120, 101, 99, 117, 116, 97, 98, 108, 101, 32, 73, 109, 97, 103, 101>>,
     \* 'kernel.img: Linux kernel ARM boot executable zImage'
     <<107, 101, 114, 110, 101, 108, 46, 105, 109, 103, 58, 32, 76, 105, 110, 117, 120, 32, 107, 101, 114, 110, 101, 108, 32, 65, 82, 77, 32, 98, 111, 111, 116, 32, 101, 120, 101, 99, 117, 116, 97, 98, 108, 101, 32, 122, 73, 109, 97, 103, 101>>,
     \* 'kernel.img: ELF 64-bit LSB executable, x86-64'
     <<107, 101, 114, 110, 101, 108, 46, 105, 109, 103, 58, 32, 69, 76, 70, 32, 54, 52, 45, 98, 105, 116, 32, 76, 83, 66, 32, 101, 120, 101, 99, 117, 116, 97, 98, 108, 101, 44, 32, 120, 56, 54, 45, 54, 52>>,
     \* 'kernel.img: Linux kernel x86 boot executable bzImage'
     <<107, 101, 114, 110, 101, 108, 46, 105, 109, 103, 58, 32, 76, 105, 110, 117, 120, 32, 107, 101, 114, 110, 101, 108, 32, 120, 56, 54, 32, 98, 111, 111, 116, 32, 101, 120, 101, 99, 117, 116, 97, 98, 108, 101, 32, 98, 122, 73, 109, 97, 103, 101>>}

\* what running `file` can give: it is not installed, or it prints a description
FileRuns ==
    {[ran |-> FALSE, stdout |-> <<>>]} \cup {[ran |-> TRUE, stdout |-> o] : o \in FileOutputs}

\* _detect_architecture(path)
ArchitectureAct ==
    /\ \E path \in KernelPaths, run \in FileRuns :
          res' = [op |-> "architecture", path |-> path, raised |-> "none",
                  run |-> run, ret |-> DetectArchitecture(run.ran, run.stdout)]
    /\ invoked' = <<"file">>
    /\ UNCHANGED <<tools, fs, clock, workers, control>>

\* the component files a caller may hand to repack_boot_image
Candidates ==
    [kernel |-> "in/kernel", ramdisk |-> "in/ramdisk.img", second |-> "in/second",
     config |-> "in/bootimg.cfg"]

ComponentSets == {[k \in keys |-> Candidates[k]] : keys \in SUBSET DOMAIN Candidates}

RepackEffect(components, output, r) ==
    /\ fs' = r.fs
    /\ invoked' = r.cmds
    /\ res' = [op |-> "repack", components |-> components, output |-> output,
               raised |-> r.raised, ret |-> r.ret,
               existed |-> Exists(fs, output), input |-> Before(output)]

\* repack_boot_image(components, "new_boot.img")
RepackAct ==
    /\ \E components \in ComponentSets,
          toolOk \in (IF tools.mkbootimg \/ tools.abootimg THEN BOOLEAN ELSE {TRUE}) :
          RepackEffect(components, "new_boot.img",
                       RepackBootImage(fs, tools, components, "new_boot.img", toolOk))
    /\ UNCHANGED <<tools, clock, workers, control>>

NoCall == [op |-> "none", raised |-> "none"]

\* no call is running in parallel
NoWorkers == <<>>

\* no MasterControl has been constructed
NoControl == [pc |-> "none"]

(***************************************************************************)
(* Spec: extraction of one boot image.                                     *)
(***************************************************************************)
Init ==
    /\ tools \in {t \in ToolSets : ~t.mkbootimg}
    /\ \E image \in InputImages : fs = ("boot.img" :> image)
    /\ clock = 0
    /\ invoked = <<>>
    /\ res = NoCall
    /\ workers = NoWorkers
    /\ control = NoControl

Next == ExtractAct

Spec == Init /\ [][Next]_vars

(***************************************************************************)
(* SpecKernel: sniffing, decompression and analysis of one kernel file.    *)
(***************************************************************************)
InitKernel ==
    /\ tools = [abootimg |-> FALSE, mkbootimg |-> FALSE]
    /\ \E buf \in KernelBufs : fs = ("kernel.img" :> buf)
    /\ clock = 0
    /\ invoked = <<>>
    /\ res = NoCall
    /\ workers = NoWorkers
    /\ control = NoControl

NextKernel ==
    \/ AnalyzeAct \/ DetectAct \/ DecompressAct
    \/ SecurityAct \/ ArchitectureAct \/ ConfigAct

SpecKernel == InitKernel /\ [][NextKernel]_vars

(***************************************************************************)
(* SpecRepack: the flow of example_repack.py: loose component files are    *)
(* repacked once, and the result is verified by extracting it.             *)
(***************************************************************************)
ComponentFiles ==
    {("in/kernel" :> k) @@ r @@ s @@ c @@ o :
        k \in {GzipOk, <<7, 7, 7>>},
        o \in {EmptyDict, "new_boot.img" :> <<1, 2, 3>>},
        r \in {EmptyDict, "in/ramdisk.img" :> <<9, 9>>},
        s \in {EmptyDict, "in/second" :> <<5>>},
        c \in {EmptyDict,
               "in/bootimg.cfg" :> CfgText(BootConfig(SampleHeader(2048, 3, 2, 0))),
               "in/bootimg.cfg" :> AbootimgCfg(SampleHeader(4096, 3, 2, 0), 12288)}}

InitRepack ==
    /\ tools \in ToolSets
    /\ fs \in ComponentFiles
    /\ clock = 0
    /\ invoked = <<>>
    /\ res = NoCall
    /\ workers = NoWorkers
    /\ control = NoControl

\* step 3 of main(): forge.repack_boot_image(modifications, output_path)
RepackStep == res.op = "none" /\ RepackAct

\* step 4 of main(): verify_boot_image extracts the repacked image
VerifyStep == res.op = "repack" /\ ExtractAct

NextRepack == RepackStep \/ VerifyStep

SpecRepack == InitRepack /\ [][NextRepack]_vars

(***************************************************************************)
(* SpecParallel: two analyze_kernel calls, on different kernels, run in    *)
(* parallel on one workspace.  A step is the part of the call between two  *)
(* accesses to a file of the workspace.                                    *)
(***************************************************************************)
\* the kernels that two extractions leave in the workspace
WorkerPaths ==
    <<ExtractPath("boot.img") \o "/kernel", ExtractPath("new_boot.img") \o "/kernel">>

\* the frame of a call that has not started
Frame(path) ==
    [pc |-> "start", path |-> path, analysis |-> EmptyDict, compression |-> None,
     decompressed |-> None, found |-> FALSE, config |-> EmptyDict]

ParallelKernels ==
    {EmbedConfig(<<>>, GzipMagic \o <<8>> \o <<67, 79, 78, 70, 73, 71, 95, 80, 77, 61, 121, 10>>),
     EmbedConfig(<<>>, GzipMagic \o <<8>> \o <<67, 79, 78, 70, 73, 71, 95, 83, 77, 80, 61, 121, 10>>),
     GzipMagic \o <<8>> \o <<76, 105, 110, 117, 120, 32, 118, 101, 114, 115, 105, 111, 110, 32, 52, 46, 57, 45, 120, 32, 40, 98, 41>>,
     GzipMagic \o <<8, 7>>,
     GzipBad,
     <<7, 7, 7>>}

InitParallel ==
    /\ tools = [abootimg |-> FALSE, mkbootimg |-> FALSE]
    /\ \E k1 \in ParallelKernels, k2 \in ParallelKernels :
          /\ k1 # k2
          /\ fs = (WorkerPaths[1] :> k1) @@ (WorkerPaths[2] :> k2)
    /\ clock = 0
    /\ invoked = <<>>
    /\ res = NoCall
    /\ workers = [w \in DOMAIN WorkerPaths |-> Frame(WorkerPaths[w])]
    /\ control = NoControl

\* lines 306-325: the file is read once for size, hash, version and sniffing
Sniffed(fr, data, now) ==
    [fr EXCEPT
        !.pc = "sniffed",
        !.compression = DetectCompression(ReadAt(data, 0, SniffLen)),
        !.analysis =
            SetIf(DetectCompression(ReadAt(data, 0, SniffLen)) # None,
                  Update([path |-> fr.path, size |-> Len(data),
                          sha256 |-> Sha256(data), timestamp |-> now],
                         ExtractKernelVersion(data)),
                  "compression", DetectCompression(ReadAt(data, 0, SniffLen)))]

SniffStep(w) ==
    /\ workers[w].pc = "start"
    /\ workers' = [workers EXCEPT ![w] = Sniffed(@, fs[@.path], clock)]
    /\ clock' = clock + 1
    /\ UNCHANGED <<tools, fs, invoked, res, control>>

\* lines 328-330, with the outcome dec of _decompress_kernel
Decompressed(fr, dec) ==
    [fr EXCEPT
        !.pc = "decompressed",
        !.decompressed = dec.ret,
        !.analysis = SetIf(dec.ret # None, @, "decompressed", dec.ret)]

DecompressEffectOf(w, dec) ==
    /\ workers' = [workers EXCEPT ![w] = Decompressed(@, dec)]
    /\ fs' = dec.fs
    /\ invoked' = invoked \o dec.cmds

DecompressStep(w) ==
    /\ workers[w].pc = "sniffed"
    /\ DecompressEffectOf(w,
           IF workers[w].compression # None
           THEN DecompressKernel(fs, workers[w].path, workers[w].compression)
           ELSE [ret |-> None, raised |-> "none", fs |-> fs, cmds |-> <<>>])
    /\ UNCHANGED <<tools, clock, res, control>>

\* lines 331-335: the decompressed file is read back
Reanalyzed(fr, f) ==
    [fr EXCEPT
        !.pc = "reanalyzed",
        !.analysis =
            IF fr.decompressed = None THEN @
            ELSE SetIf(DOMAIN ExtractKernelVersion(f[fr.decompressed]) # {}, @,
                       "decompressed_version", ExtractKernelVersion(f[fr.decompressed]))]

ReanalyzeStep(w) ==
    /\ workers[w].pc = "decompressed"
    /\ workers' = [workers EXCEPT ![w] = Reanalyzed(@, fs)]
    /\ UNCHANGED <<tools, fs, clock, invoked, res, control>>

\* line 343, with the outcome cfg of _extract_kernel_config
Configured(fr, cfg) ==
    [fr EXCEPT !.pc = "configured", !.found = cfg.found, !.config = cfg.ret]

ConfigEffectOf(w, cfg) ==
    /\ workers' = [workers EXCEPT ![w] = Configured(@, cfg)]
    /\ fs' = cfg.fs

ConfigStep(w) ==
    /\ workers[w].pc = "reanalyzed"
    /\ ConfigEffectOf(w, ExtractKernelConfig(fs, fs[workers[w].path]))
    /\ UNCHANGED <<tools, clock, invoked, res, control>>

\* lines 344-346: _analyze_config_features opens config_file
Featured(fr, f) ==
    [fr EXCEPT
        !.pc = "featured",
        !.analysis = SetIf(fr.found, SetIf(fr.found, @, "config", fr.config),
                           "config_features", AnalyzeConfigFeatures(f, fr.config))]

FeatureStep(w) ==
    /\ workers[w].pc = "configured"
    /\ workers' = [workers EXCEPT ![w] = Featured(@, fs)]
    /\ UNCHANGED <<tools, fs, clock, invoked, res, control>>

\* lines 348-363: the security scan, then the analysis is saved and returned
Finished(fr, f) ==
    [fr EXCEPT
        !.pc = "done",
        !.analysis = Update(@, "security_features" :> DetectSecurityFeatures(f, fr.path))]

FinishEffectOf(w, fr) ==
    /\ workers' = [workers EXCEPT ![w] = fr]
    /\ fs' = WriteFile(fs, AnalysisFile, [json |-> fr.analysis])

FinishStep(w) ==
    /\ workers[w].pc = "featured"
    /\ FinishEffectOf(w, Finished(workers[w], fs))
    /\ UNCHANGED <<tools, clock, invoked, res, control>>

\* one step of one of the calls
WorkerSniff == \E w \in DOMAIN workers : SniffStep(w)

WorkerDecompress == \E w \in DOMAIN workers : DecompressStep(w)

WorkerReanalyze == \E w \in DOMAIN workers : ReanalyzeStep(w)

WorkerConfig == \E w \in DOMAIN workers : ConfigStep(w)

WorkerFeature == \E w \in DOMAIN workers : FeatureStep(w)

WorkerFinish == \E w \in DOMAIN workers : FinishStep(w)

NextParallel ==
    \/ WorkerSniff
    \/ WorkerDecompress
    \/ WorkerReanalyze
    \/ WorkerConfig
    \/ WorkerFeature
    \/ WorkerFinish

SpecParallel == InitParallel /\ [][NextParallel]_vars

(***************************************************************************)
(* SpecConfig: a header-based extraction, then _parse_boot_config on the   *)
(* bootimg.cfg it wrote.                                                   *)
(***************************************************************************)
\* names a header can hold: 'b', '', ' b', 'b=', 'b '
HeaderNames == {<<98>>, <<>>, <<32, 98>>, <<98, 61>>, <<98, 32>>}

\* cmdlines a header can hold: 'a=1', '', ' a', 'a ', 'a b', 'a = b', '=',
\* 'a\nb', 'a\rb', a tab and 'a'
HeaderCmdlines ==
    {<<97, 61, 49>>, <<>>, <<32, 97>>, <<97, 32>>, <<97, 32, 98>>,
     <<97, 32, 61, 32, 98>>, <<61>>, <<97, 10, 98>>, <<97, 13, 98>>, <<9, 97>>}

NamedHeader(page_size, name, cmdline) ==
    [SampleHeader(page_size, 3, 2, 0) EXCEPT !.name = name, !.cmdline = cmdline]

NamedImages ==
    {HeaderBytes(NamedHeader(p, n, c)) \o SampleBody :
        p \in {2048, 4096}, n \in HeaderNames, c \in HeaderCmdlines}

InitConfig ==
    /\ tools = [abootimg |-> FALSE, mkbootimg |-> FALSE]
    /\ \E image \in NamedImages : fs = ("boot.img" :> image)
    /\ clock = 0
    /\ invoked = <<>>
    /\ res = NoCall
    /\ workers = NoWorkers
    /\ control = NoControl

ExtractStep == res.op = "none" /\ ExtractAct

\* _parse_boot_config(components['config']) after an extraction that wrote it;
\* table keeps the boot_config the extraction returned
ParseConfigStep ==
    /\ res.op = "extract" /\ res.raised = "none"
    /\ "boot_config" \in DOMAIN res.ret /\ "config" \in DOMAIN res.ret.components
    /\ res' = [op |-> "parse_config", path |-> res.ret.components.config,
               raised |-> "none",
               ret |-> ParseBootConfigFile(fs, res.ret.components.config),
               table |-> res.ret.boot_config]
    /\ invoked' = <<>>
    /\ UNCHANGED <<tools, fs, clock, workers, control>>

NextConfig == ExtractStep \/ ParseConfigStep

SpecConfig == InitConfig /\ [][NextConfig]_vars

(***************************************************************************)
(* SpecControl: MasterControl() and its run loop, one action per input the *)
(* loop or a handler waits for.                                            *)
(***************************************************************************)
\* which tool scripts are installed: none, all, the first, the last two
ToolInstalls == {{}, 1..7, {1}, {6, 7}}

\* a master_config.json left by an earlier session
SavedConfigs ==
    {[json |-> [mode |-> m, device_info |-> EmptyDict, last_updated |-> 0]] :
        m \in {"beginner", "advanced"}}

ControlFiles ==
    {[i \in present |-> <<>>] : present \in {{ToolScripts[i] : i \in inst} : inst \in ToolInstalls}}

\* __init__ and _initialize on the files f
Constructed(f) ==
    [pc |-> "menu", mode |-> LoadedMode(f), device_info |-> LoadedDeviceInfo(f),
     tools_available |-> CheckTools(f), choice |-> "", shown |-> "",
     item |-> 0, all_confirmed |-> TRUE, completed |-> FALSE]

InitControl ==
    /\ tools = [abootimg |-> FALSE, mkbootimg |-> FALSE]
    /\ \E scripts \in ControlFiles :
          \/ fs = scripts
          \/ \E config \in SavedConfigs : fs = (ControlConfigFile :> config) @@ scripts
    /\ clock = 0
    /\ invoked = <<>>
    /\ res = NoCall
    /\ workers = NoWorkers
    /\ control = Constructed(fs)

\* the handler of a guided workflow: lines 750-760
WorkflowPc(choice) == IF choice = "1" THEN "setup_ready" ELSE "workflow"

\* choice '0': the loop breaks
MenuExit ==
    /\ control.pc = "menu"
    /\ control' = [control EXCEPT !.pc = "exited", !.choice = "0"]
    /\ UNCHANGED <<tools, fs, clock, invoked, res, workers>>

\* a dispatch that starts the workflow in either mode
MenuWorkflowAnyMode ==
    /\ control.pc = "menu"
    /\ \E choice \in {"1", "2", "3", "4"} :
          control' = [control EXCEPT !.choice = choice, !.pc = WorkflowPc(choice)]
    /\ UNCHANGED <<tools, fs, clock, invoked, res, workers>>

\* choices '1' to '4': a guided workflow in beginner mode, nothing otherwise
MenuWorkflow ==
    /\ control.pc = "menu"
    /\ \E choice \in {"1", "2", "3", "4"} :
          control' = [control EXCEPT
                         !.choice = choice,
                         !.pc = IF control.mode = "beginner" THEN WorkflowPc(choice)
                                ELSE "menu"]
    /\ UNCHANGED <<tools, fs, clock, invoked, res, workers>>

\* choices '5' to '11': launch_tool(name)
MenuLaunch ==
    /\ control.pc = "menu"
    /\ \E choice \in {"5", "6", "7", "8", "9", "10", "11"} :
          control' = [control EXCEPT
                         !.choice = choice,
                         !.pc = "press_enter",
                         !.shown = IF GetAvailable(control.tools_available,
                                                   ToolKey(LaunchName(choice)))
                                   THEN "Launching" ELSE "Tool not available"]
    /\ UNCHANGED <<tools, fs, clock, invoked, res, workers>>

\* choice '12': toggle_mode asks for confirmation
MenuToggle ==
    /\ control.pc = "menu"
    /\ control' = [control EXCEPT !.choice = "12", !.pc = "toggle_confirm"]
    /\ UNCHANGED <<tools, fs, clock, invoked, res, workers>>

\* choices '13' and '14': a text, then Press Enter
MenuInfo ==
    /\ control.pc = "menu"
    /\ \E choice \in {"13", "14"} :
          control' = [control EXCEPT !.choice = choice, !.pc = "press_enter"]
    /\ UNCHANGED <<tools, fs, clock, invoked, res, workers>>

\* lines 641-644 with the answer yes: the mode is switched and saved
ToggleYes ==
    /\ control.pc = "toggle_confirm"
    /\ clock < MaxClock
    /\ control' = [control EXCEPT !.mode = NewMode(control.mode), !.pc = "press_enter"]
    /\ fs' = SaveConfig(fs, control', clock)
    /\ clock' = clock + 1
    /\ UNCHANGED <<tools, invoked, res, workers>>

\* any other answer: nothing changes
ToggleNo ==
    /\ control.pc = "toggle_confirm"
    /\ control' = [control EXCEPT !.pc = "press_enter"]
    /\ UNCHANGED <<tools, fs, clock, invoked, res, workers>>

\* 'Press Enter to return': the handler returns and the loop shows the menu
PressEnter ==
    /\ control.pc = "press_enter"
    /\ control' = [control EXCEPT !.pc = "menu"]
    /\ UNCHANGED <<tools, fs, clock, invoked, res, workers>>

\* workflows 2, 3 and 4 change no field: they return at once or after inputs
WorkflowDone ==
    /\ control.pc = "workflow"
    /\ \E pc \in {"menu", "press_enter"} : control' = [control EXCEPT !.pc = pc]
    /\ UNCHANGED <<tools, fs, clock, invoked, res, workers>>

\* first_time_setup, lines 345-379: 'Ready to begin?', then the adb check;
\* with a device, device_info is filled in
SetupReady ==
    /\ control.pc = "setup_ready"
    /\ \E ready \in BOOLEAN, adb \in BOOLEAN :
          /\ control' = IF ~ready THEN [control EXCEPT !.pc = "menu"]
                        ELSE IF ~adb THEN [control EXCEPT !.pc = "press_enter"]
                        ELSE [control EXCEPT !.pc = "setup_detected",
                                             !.device_info = DetectedDevice]
          /\ invoked' = IF ready THEN <<"adb devices">> ELSE <<>>
    /\ UNCHANGED <<tools, fs, clock, res, workers>>

\* 'Press Enter to continue': the safety checkpoint starts
SetupContinue ==
    /\ control.pc = "setup_detected"
    /\ control' = [control EXCEPT !.pc = "setup_safety", !.item = 1,
                                  !.all_confirmed = TRUE]
    /\ UNCHANGED <<tools, fs, clock, invoked, res, workers>>

\* lines 398-409: one safety item is answered; after the last one the
\* wizard goes on only if all were confirmed
SetupSafety ==
    /\ control.pc = "setup_safety"
    /\ \E yes \in BOOLEAN :
          control' = [control EXCEPT
                         !.all_confirmed = control.all_confirmed /\ yes,
                         !.item = IF control.item < SafetyItems THEN control.item + 1
                                  ELSE 0,
                         !.pc = IF control.item < SafetyItems THEN "setup_safety"
                                ELSE IF control.all_confirmed /\ yes THEN "setup_steps"
                                ELSE "press_enter"]
    /\ UNCHANGED <<tools, fs, clock, invoked, res, workers>>

\* lines 411-457: steps 3 to 5, then _save_config
SetupComplete ==
    /\ control.pc = "setup_steps"
    /\ clock < MaxClock
    /\ control' = [control EXCEPT !.pc = "press_enter", !.completed = TRUE]
    /\ fs' = SaveConfig(fs, control, clock)
    /\ clock' = clock + 1
    /\ UNCHANGED <<tools, invoked, res, workers>>

\* Ctrl-C at an input: KeyboardInterrupt ends run() through line 787
Interrupt ==
    /\ control.pc \notin {"none", "exited", "interrupted"}
    /\ control' = [control EXCEPT !.pc = "interrupted"]
    /\ UNCHANGED <<tools, fs, clock, invoked, res, workers>>

NextControl ==
    \/ MenuExit \/ MenuWorkflow \/ MenuLaunch \/ MenuToggle \/ MenuInfo
    \/ ToggleYes \/ ToggleNo \/ PressEnter \/ WorkflowDone
    \/ SetupReady \/ SetupContinue \/ SetupSafety \/ SetupComplete
    \/ Interrupt

SpecControl == InitControl /\ [][NextControl]_vars

\* a handler goes on when the user answers its prompt: every wait of a
\* handler is for one line of input, and the user is taken to answer it
Progress ==
    \/ ToggleYes \/ ToggleNo \/ PressEnter \/ WorkflowDone
    \/ SetupReady \/ SetupContinue \/ SetupSafety \/ SetupComplete

SpecControlLive == InitControl /\ [][NextControl]_vars /\ WF_vars(Progress)

(***************************************************************************)
(* Properties of header-based extraction, checked under Spec.              *)
(***************************************************************************)
\* the last call was an extraction that went through the header path
HeaderExtracted == res.op = "extract" /\ "kernel_offset" \in DOMAIN res.offsets

\* the last call was given an image with the signature and all ten fields
HeaderGiven ==
    /\ res.op = "extract"
    /\ res.raised # "FileNotFoundError"
    /\ Take(res.input, MagicLen) = BootMagic
    /\ ~HeaderRaises(res.input)

\* the header of the image the last call was given
InputHeader == ParseHeader(res.input)

IsPowerOfTwo(n) == \E k \in 0..(MaxPageLog + 1) : n = Pow2(k)

\* ceil(a / b) for b > 0
CeilDiv(a, b) == IF a % b = 0 THEN a \div b ELSE a \div b + 1

\* [a, a + n) and [b, b + m) have no byte in common
Disjoint(a, n, b, m) == n = 0 \/ m = 0 \/ a + n <= b \/ b + m <= a

\* C2: for a page size that is a positive power of two and any segment sizes,
\* the ramdisk and second-stage offsets that header-based extraction computes
\* are exact multiples of the page size.
C2_PageAlignment ==
    (HeaderExtracted /\ IsPowerOfTwo(InputHeader.page_size)) =>
        /\ res.offsets.ramdisk_offset % InputHeader.page_size = 0
        /\ res.offsets.second_offset % InputHeader.page_size = 0

\* a kernel of the largest size and a ramdisk of 5 bytes, pages of 2048 bytes
C2_Witness ==
    /\ HeaderExtracted
    /\ InputHeader.page_size = 2048
    /\ InputHeader.kernel_size = MaxSize
    /\ InputHeader.ramdisk_size = 5
    /\ res.offsets.second_offset - res.offsets.ramdisk_offset = 2048

\* C3: for a header with page_size > 0 the byte ranges read for the kernel,
\* the ramdisk and the second stage are pairwise disjoint, and each range
\* begins at a multiple of page_size.
C3_SegmentsDisjointAligned ==
    (HeaderExtracted /\ InputHeader.page_size > 0) =>
        /\ Disjoint(res.offsets.kernel_offset, InputHeader.kernel_size,
                    res.offsets.ramdisk_offset, InputHeader.ramdisk_size)
        /\ Disjoint(res.offsets.kernel_offset, InputHeader.kernel_size,
                    res.offsets.second_offset, InputHeader.second_size)
        /\ Disjoint(res.offsets.ramdisk_offset, InputHeader.ramdisk_size,
                    res.offsets.second_offset, InputHeader.second_size)
        /\ res.offsets.kernel_offset % InputHeader.page_size = 0
        /\ res.offsets.ramdisk_offset % InputHeader.page_size = 0
        /\ res.offsets.second_offset % InputHeader.page_size = 0

\* three non-empty segments on pages of 1000 bytes, which is no power of two
C3_Witness ==
    /\ HeaderExtracted
    /\ InputHeader.page_size = 1000
    /\ InputHeader.kernel_size = 4096
    /\ InputHeader.ramdisk_size = 100
    /\ InputHeader.second_size = 1
    /\ res.offsets.second_offset = 7000

\* C4: header-based extraction computes kernel_offset = page_size,
\* ramdisk_offset = kernel_offset + ceil(kernel_size / page_size) * page_size
\* and second_offset = ramdisk_offset + ceil(ramdisk_size / page_size) *
\* page_size; a size of 0 advances the offset by 0; and page_size 2048,
\* kernel_size 4096, ramdisk_size 100 give the offsets 2048, 6144 and 8192.
C4_OffsetFormula ==
    (HeaderExtracted /\ InputHeader.page_size > 0) =>
        /\ res.offsets.kernel_offset = InputHeader.page_size
        /\ res.offsets.ramdisk_offset =
              res.offsets.kernel_offset
              + CeilDiv(InputHeader.kernel_size, InputHeader.page_size)
                * InputHeader.page_size
        /\ res.offsets.second_offset =
              res.offsets.ramdisk_offset
              + CeilDiv(InputHeader.ramdisk_size, InputHeader.page_size)
                * InputHeader.page_size
        /\ InputHeader.kernel_size = 0 =>
              res.offsets.ramdisk_offset = res.offsets.kernel_offset
        /\ InputHeader.ramdisk_size = 0 =>
              res.offsets.second_offset = res.offsets.ramdisk_offset
        /\ (/\ InputHeader.page_size = 2048
            /\ InputHeader.kernel_size = 4096
            /\ InputHeader.ramdisk_size = 100) =>
              res.offsets = [kernel_offset |-> 2048, ramdisk_offset |-> 6144,
                             second_offset |-> 8192]

\* the scenario of the well-formed container
C4_Witness ==
    /\ HeaderExtracted
    /\ InputHeader.page_size = 2048
    /\ InputHeader.kernel_size = 4096
    /\ InputHeader.ramdisk_size = 100
    /\ res.offsets.second_offset = 8192

\* an extraction that advanced by 0 for a kernel of size 0
C4_ZeroWitness ==
    /\ HeaderExtracted
    /\ InputHeader.kernel_size = 0
    /\ InputHeader.ramdisk_size = 0
    /\ res.offsets.second_offset = InputHeader.page_size

\* the last call extracted or recorded no component and used no offset
NothingExtracted ==
    /\ DOMAIN res.offsets = {}
    /\ \A p \in DOMAIN fs : p \in {"boot.img", "new_boot.img"}
    /\ "components" \in DOMAIN res.ret => DOMAIN res.ret.components = {}

\* C5: a container whose header declares page_size = 0 is rejected: the
\* extraction reports an error outcome, no segment offsets are used and no
\* component is extracted or recorded.
C5_ZeroPageRejected ==
    (HeaderGiven /\ InputHeader.page_size = 0) =>
        (res.raised # "none" /\ NothingExtracted)

\* C6: decoding a container that starts with the signature but holds fewer
\* bytes than the fixed header length fails with an error at every truncation
\* point, instead of producing a header or components.
C6_TruncatedHeaderFails ==
    (/\ res.op = "extract"
     /\ ~tools.abootimg
     /\ Take(res.input, MagicLen) = BootMagic
     /\ Len(res.input) < HeaderLen) =>
        (res.raised # "none" /\ DOMAIN res.offsets = {})

(***************************************************************************)
(* Properties of repacking, checked under SpecRepack.                      *)
(***************************************************************************)
\* the segments a repacked image carries
SegmentKeys == {"kernel", "ramdisk", "second"}

\* extracting e gave back, byte for byte, the segment files named in components
SameSegments(f, components, e) ==
    /\ e.raised = "none"
    /\ "components" \in DOMAIN e.ret
    /\ \A k \in DOMAIN components \cap SegmentKeys :
          /\ k \in DOMAIN e.ret.components
          /\ e.fs[e.ret.components[k]] = f[components[k]]

\* the image at output exists and extracts to the segments given
RoundTrips(f, components, output) ==
    /\ Exists(f, output)
    /\ SameSegments(f, components, ExtractManually(f, output))

\* C1: for every component set with at least a kernel (optionally a ramdisk
\* and a second stage), repack_boot_image produces an image whose extraction
\* yields kernel, ramdisk and second-stage contents byte-identical to the
\* inputs given to repack.
C1_RoundTrip ==
    (/\ res.op = "repack"
     /\ "kernel" \in DOMAIN res.components
     /\ \A k \in DOMAIN res.components : Exists(fs, res.components[k])) =>
        (res.ret = res.output /\ RoundTrips(fs, res.components, res.output))

\* C7: repack_boot_image called with a component set that has no kernel
\* entry fails with the missing-component error before any external tool is
\* invoked and without creating or modifying the output file, whatever tools
\* are available.
C7_MissingKernel ==
    (res.op = "repack" /\ "kernel" \notin DOMAIN res.components) =>
        /\ res.raised = "ValueError"
        /\ invoked = <<>>
        /\ Exists(fs, res.output) = res.existed
        /\ Before(res.output) = res.input

\* only a ramdisk is given, both tools are installed, the output file exists
C7_Witness ==
    /\ res.op = "repack"
    /\ DOMAIN res.components = {"ramdisk"}
    /\ tools.mkbootimg /\ tools.abootimg
    /\ res.existed
    /\ res.raised = "ValueError"
    /\ fs[res.output] = <<1, 2, 3>>

(***************************************************************************)
(* Properties of sniffing and decompression, checked under SpecKernel.     *)
(***************************************************************************)
IsPrefix(p, s) == Len(p) <= Len(s) /\ Take(s, Len(p)) = p

\* C8: detection is a deterministic function of the first 6 bytes: buffers
\* with the same first 6 bytes get the same kind, and a buffer whose leading
\* bytes are a kind's signature is classified as that kind whatever follows.
C8_DetectFirstSix ==
    res.op = "detect" =>
        /\ \A buf \in KernelBufs :
              Take(buf, 6) = Take(fs[res.path], 6) =>
                  DetectCompression(ReadAt(buf, 0, SniffLen)) = res.ret
        /\ \A k \in Kinds : IsPrefix(Signature(k), fs[res.path]) => res.ret = k

\* the xz signature followed by two more bytes
C8_Witness ==
    /\ res.op = "detect"
    /\ fs[res.path] = Signature("xz") \o <<0, 31>>
    /\ res.ret = "xz"

\* C9: detection never fails: for every buffer, the empty one and those
\* shorter than any signature included, it returns a result, which is None
\* exactly when no signature of the table is a prefix of the buffer.
C9_DetectTotal ==
    res.op = "detect" =>
        /\ res.raised = "none"
        /\ res.ret \in Kinds \cup {None}
        /\ res.ret = None <=> ~\E k \in Kinds : IsPrefix(Signature(k), fs[res.path])

\* a buffer of one byte, the first byte of the lz4 signature
C9_Witness ==
    /\ res.op = "detect"
    /\ fs[res.path] = <<2>>
    /\ res.ret = None

\* C10: decompression fails loudly: for a detected kind without decompressor
\* (lzo, zstd), and for data the decompressor rejects, the operation fails
\* with an error and does not return an ordinary no-result value.
C10_DecompressFailsLoudly ==
    (/\ res.op = "decompress"
     /\ \/ res.kind \in {"lzo", "zstd"}
        \/ ~StreamOk(res.kind, fs[res.path])) =>
        (res.raised # "none" /\ res.ret # None)

(***************************************************************************)
(* Properties of the analysis facets, checked under SpecKernel.            *)
(***************************************************************************)
\* the kernel of the last call holds the start marker and no end marker after it
StartOnly(data) ==
    /\ Find(data, StartMarker, 0) # -1
    /\ Find(data, EndMarker, Find(data, StartMarker, 0)) = -1

\* C11: for a kernel that contains the start marker IKCFG_ST but no end
\* marker IKCFG_ED after it, the analysis holds no config and no config
\* features, no error is raised and no configuration is parsed or written.
C11_StartMarkerOnly ==
    (res.op = "analyze" /\ StartOnly(fs[res.path])) =>
        /\ res.raised = "none"
        /\ "config" \notin DOMAIN res.ret
        /\ "config_features" \notin DOMAIN res.ret
        /\ ~Exists(fs, ConfigFile)

\* the end marker comes first, then the start marker and a valid stream
C11_Witness ==
    /\ res.op = "analyze"
    /\ StartOnly(fs[res.path])
    /\ Take(fs[res.path], 16) = EndMarker \o StartMarker
    /\ StreamOk("gzip", Drop(fs[res.path], 16))
    /\ "config" \notin DOMAIN res.ret

(***************************************************************************)
(* Properties of the fallback extraction, checked under Spec.              *)
(***************************************************************************)
\* the offsets at which the byte pair 1F 8B occurs
GzipOffsets(data) == {i \in 0..(Len(data) - 2) : data[i + 1] = 31 /\ data[i + 2] = 139}

FirstGzipOffset(data) ==
    CHOOSE i \in GzipOffsets(data) : \A j \in GzipOffsets(data) : i <= j

\* at most 16 MiB from the first 1F 8B on
KernelCandidate(data) ==
    SubSeq(data, FirstGzipOffset(data) + 1,
           Min(Len(data), FirstGzipOffset(data) + 16777216))

\* the last call took the manual path on an image without the signature
RawExtracted ==
    /\ res.op = "extract"
    /\ ~tools.abootimg
    /\ res.raised # "FileNotFoundError"
    /\ Take(res.input, MagicLen) # BootMagic

NothingToFind ==
    /\ res.op = "extract"
    /\ res.raised # "FileNotFoundError"
    /\ Take(res.input, MagicLen) # BootMagic
    /\ GzipOffsets(res.input) = {}

C14_ProvenanceTag ==
    (res.op = "extract" /\ res.raised = "none") =>
        /\ "method" \in DOMAIN res.ret
        /\ res.ret.method \in {"abootimg", "manual_android", "manual_raw", "failed"}

\* two calls of analyze_kernel in a row, both returning, on the same bytes
AnalyzedTwice ==
    /\ res.op = "analyze" /\ res.raised = "none"
    /\ res'.op = "analyze" /\ res'.raised = "none"
    /\ fs'[res'.path] = fs[res.path]

\* C15: calling analyze_kernel twice on identical kernel bytes returns two
\* analysis records that are equal in every field, the hash included.
C15_IdempotentAnalysis == [][AnalyzedTwice => res'.ret = res.ret]_vars

(***************************************************************************)
(* Extraction and the files earlier calls left, checked under Spec.        *)
(***************************************************************************)
\* a workspace that holds the container of the last call and nothing else
FreshWorkspace == res.path :> res.input

\* the outcome r of a call, with files g, is the one the last call had:
\* the same error, provenance tag, components and component contents
SameOutcome(r, g) ==
    /\ r.raised = res.raised
    /\ r.raised = "none" =>
          /\ ("method" \in DOMAIN r.ret) = ("method" \in DOMAIN res.ret)
          /\ "method" \in DOMAIN r.ret => r.ret.method = res.ret.method
          /\ r.ret.components = res.ret.components
          /\ \A k \in DOMAIN r.ret.components :
                g[r.ret.components[k]] = fs[res.ret.components[k]]

SameAsFresh(r) == SameOutcome(r, r.fs)

\* C16: in any sequence of extract_boot_image calls on one workspace, the
\* result for a container (components, their contents, provenance tag) is
\* the one its extraction in a fresh workspace gives; files left by earlier
\* extractions neither change nor fail a later one.
C16_NoCrossCallState ==
    (res.op = "extract" /\ res.raised # "FileNotFoundError") =>
        \E toolOk \in BOOLEAN :
            SameAsFresh(ExtractBootImage(FreshWorkspace, tools, res.path, 0, toolOk))

(***************************************************************************)
(* Parallel analyses, checked under SpecParallel.                          *)
(***************************************************************************)
\* what the call of worker w returns when it runs alone, started at the same time
AloneResult(w) ==
    AnalyzeKernel(workers[w].path :> fs[workers[w].path], workers[w].path,
                  workers[w].analysis.timestamp).ret

\* C17: two analyze_kernel calls on different kernels that run in parallel
\* each return, in every interleaving of their steps, the record they return
\* when run alone: no step of one reads what the other wrote.
C17_ParallelIsolation ==
    \A w \in DOMAIN workers :
        workers[w].pc = "done" => workers[w].analysis = AloneResult(w)

(***************************************************************************)
(* Security flags and nested analysis, checked under SpecKernel.           *)
(***************************************************************************)
\* C18: a facet that could not be detected is absent rather than reported
\* negative: when the kernel bytes cannot be read, no security flag is
\* reported as False.
C18_UnreadableNotNegative ==
    (res.op = "security" /\ ~Exists(fs, res.path)) =>
        \A flag \in DOMAIN res.ret : res.ret[flag] # FALSE

\* the fields of an analysis record whose value is itself a dict
DictFields == {"decompressed_version", "config", "config_features", "security_features"}

\* the fields that hold a complete analysis: length, hash and security features
NestedAnalyses(ret) ==
    {k \in DOMAIN ret \cap DictFields :
        {"size", "sha256", "security_features"} \subseteq DOMAIN ret[k]}

\* a compression kind was detected and decompression succeeded
DecompressionSucceeded ==
    /\ res.op = "analyze" /\ res.raised = "none"
    /\ "decompressed" \in DOMAIN res.ret

\* C19: whenever a compression kind is detected and decompression succeeds,
\* the analysis record carries as a nested field a second complete analysis
\* of the decompressed buffer (length, hash, version, security features,
\* configuration).
C19_NestedAnalysis == DecompressionSucceeded => NestedAnalyses(res.ret) # {}

\* the key and the value a check names, the text before and after its '='
CheckKey(c) == Take(c.config, Find(c.config, <<61>>, 0))

CheckValue(c) == Drop(c.config, Find(c.config, <<61>>, 0) + 1)

\* the parsed configuration holds the entry key = value
HasEntry(config, key, value) ==
    \E i \in 1..Len(config) : config[i].key = key /\ config[i].value = value

\* the description of the check is listed in its bucket
Listed(features, c) ==
    /\ c.bucket \in DOMAIN features
    /\ \E i \in 1..Len(features[c.bucket]) : features[c.bucket][i] = c.desc

FeaturesMatchEntries(features, config) ==
    \A i \in 1..Len(FeatureChecks) :
        Listed(features, FeatureChecks[i])
            <=> HasEntry(config, CheckKey(FeatureChecks[i]), CheckValue(FeatureChecks[i]))

\* an analysis that found an embedded configuration
ConfigAnalyzed ==
    /\ res.op = "analyze" /\ res.raised = "none"
    /\ "config_features" \in DOMAIN res.ret
    /\ Exists(fs, ConfigFile)

\* C20: a feature description appears in its category bucket if and only if
\* the parsed embedded configuration contains the checked key with the
\* checked value as a KEY=VALUE entry; commented-out lines and longer keys
\* or values that merely contain the checked text do not produce it.
C20_FeatureIffEntry ==
    ConfigAnalyzed =>
        FeaturesMatchEntries(res.ret.config_features, ParseKernelConfig(fs[ConfigFile]))

(***************************************************************************)
(* The boot-config text, checked under SpecConfig.                         *)
(***************************************************************************)
\* the table as text: every key of boot_config with its value, in order
TableText(table) ==
    [i \in 1..Len(table) |-> [key |-> KeyText(table[i].key), value |-> table[i].value]]

ConfigParsed == res.op = "parse_config"

\* C21: parsing the 'key = value' text that extraction writes for a
\* boot-config table returns the same keys with the same values in the same
\* order, for every name and cmdline a header can hold, values with '=' or
\* with leading or trailing spaces included.
C21_ConfigRoundTrip == ConfigParsed => res.ret = TableText(res.table)

(***************************************************************************)
(* The component set and the saved snapshot, checked under Spec.           *)
(***************************************************************************)
Segments == {"kernel", "ramdisk", "second"}

\* the extraction returned
Returned == res.op = "extract" /\ res.raised = "none"

\* the extraction returned by the header path
ReturnedByHeader ==
    /\ Returned
    /\ "method" \in DOMAIN res.ret
    /\ res.ret.method = "manual_android"

\* the size the header of the input declares for a segment
DeclaredSize(seg) ==
    CASE seg = "kernel"  -> InputHeader.kernel_size
      [] seg = "ramdisk" -> InputHeader.ramdisk_size
      [] seg = "second"  -> InputHeader.second_size

\* the bytes of the input in the range of a segment
SegmentBytes(seg) ==
    CASE seg = "kernel"  -> ReadAt(res.input, res.offsets.kernel_offset, DeclaredSize(seg))
      [] seg = "ramdisk" -> ReadAt(res.input, res.offsets.ramdisk_offset, DeclaredSize(seg))
      [] seg = "second"  -> ReadAt(res.input, res.offsets.second_offset, DeclaredSize(seg))

\* the entry of a segment names a file that holds the bytes of the segment
HoldsSegment(seg) ==
    /\ Exists(fs, res.ret.components[seg])
    /\ fs[res.ret.components[seg]] = SegmentBytes(seg)

SnapshotSaved == Exists(fs, InfoFile) /\ fs[InfoFile] = [json |-> res.ret]

\* C22: after a header-based extraction the component set contains kernel,
\* ramdisk and second exactly for the segments of declared size > 0, each
\* entry names a file holding the bytes of its segment, and every extraction
\* that returns has written its full result to extraction_info.json.
C22_ComponentsAndSnapshot ==
    /\ Returned => SnapshotSaved
    /\ ReturnedByHeader =>
          \A seg \in Segments :
              /\ seg \in DOMAIN res.ret.components <=> DeclaredSize(seg) > 0
              /\ seg \in DOMAIN res.ret.components => HoldsSegment(seg)

\* a header-based extraction with a kernel and a ramdisk that hold bytes and
\* no second stage
C22_Witness ==
    /\ ReturnedByHeader
    /\ DOMAIN res.ret.components = {"kernel", "ramdisk", "config"}
    /\ fs[res.ret.components["kernel"]] # <<>>
    /\ fs[res.ret.components["ramdisk"]] # <<>>
    /\ "kernel_info" \in DOMAIN res.ret

(***************************************************************************)
(* Architecture detection, checked under SpecKernel.                       *)
(***************************************************************************)
Architectures == {"arm", "arm64", "x86", "x86_64", "unknown"}

\* C23: architecture detection never fails and returns a member of
\* {arm, arm64, x86, x86_64, unknown}; it returns unknown whenever the
\* description names no recognised architecture.
C23_ArchitectureTotal ==
    res.op = "architecture" => res.raised = "none" /\ res.ret \in Architectures

(***************************************************************************)
(* The embedded configuration, checked under SpecKernel.                   *)
(***************************************************************************)
\* marker occurs in data at the 0-based position p
OccursAt(data, marker, p) ==
    /\ p >= 0 /\ p + Len(marker) <= Len(data)
    /\ \A i \in 1..Len(marker) : data[p + i] = marker[i]

\* both markers were found by the last _extract_kernel_config
BothMarkersFound ==
    /\ res.op = "config"
    /\ res.slice.start_idx # -1 /\ res.slice.end_idx # -1

\* the first end marker lying wholly after the start marker at s is at e
FirstEndAfter(data, s, e) ==
    /\ OccursAt(data, EndMarker, e)
    /\ e >= s + Len(StartMarker)
    /\ \A p \in (s + Len(StartMarker))..(e - 1) : ~OccursAt(data, EndMarker, p)

\* the bytes of data from the 0-based position a up to b, b excluded
Between(data, a, b) == [i \in 1..(b - a) |-> data[a + i]]

\* C24: when both markers are found, the end marker used is the first
\* IKCFG_ED lying wholly after the start marker IKCFG_ST, and the payload
\* handed to gzip decompression is exactly the bytes from the end of the
\* start marker up to the start of that end marker.
C24_PayloadBetweenMarkers ==
    BothMarkersFound =>
        /\ OccursAt(res.data, StartMarker, res.slice.start_idx)
        /\ FirstEndAfter(res.data, res.slice.start_idx, res.slice.end_idx)
        /\ res.slice.config_data =
               Between(res.data, res.slice.start_idx + Len(StartMarker), res.slice.end_idx)

\* an end marker precedes the start marker, another one follows the end
\* marker used, and the payload is not empty
C24_Witness ==
    /\ BothMarkersFound
    /\ \E p \in 0..(res.slice.start_idx - 1) : OccursAt(res.data, EndMarker, p)
    /\ \E p \in (res.slice.end_idx + 1)..Len(res.data) : OccursAt(res.data, EndMarker, p)
    /\ res.slice.config_data # <<>>
    /\ res.found

\* the last _extract_kernel_config returned a configuration whose entries
\* all fit into sample_configs
ConfigReturned ==
    /\ res.op = "config" /\ res.found
    /\ Exists(fs, ConfigFile)
    /\ res.ret.config_count <= SampleCount

\* the trimmed lines of the decompressed text
TrimmedLines(config_text) ==
    [i \in 1..Len(SplitOn(config_text, 10)) |-> Strip(SplitOn(config_text, 10)[i], Whitespace)]

\* a trimmed line that is not blank, does not begin with '#' and contains '='
Eligible(t) == t # <<>> /\ t[1] # 35 /\ \E i \in 1..Len(t) : t[i] = 61

\* the position of the first '=' of a line that has one
FirstEq(t) == CHOOSE i \in 1..Len(t) : t[i] = 61 /\ \A j \in 1..(i - 1) : t[j] # 61

KeyOf(t) == [i \in 1..(FirstEq(t) - 1) |-> t[i]]

ValueOf(t) == [i \in 1..(Len(t) - FirstEq(t)) |-> t[FirstEq(t) + i]]

\* line i is the last eligible line of its key
LastOfKey(lines, i) ==
    \A j \in (i + 1)..Len(lines) : Eligible(lines[j]) => KeyOf(lines[j]) # KeyOf(lines[i])

\* config is the mapping the lines define
MappingOf(config, count, lines) ==
    /\ \A i \in 1..Len(lines) :
          (Eligible(lines[i]) /\ LastOfKey(lines, i)) =>
              \E j \in 1..Len(config) :
                  config[j].key = KeyOf(lines[i]) /\ config[j].value = ValueOf(lines[i])
    /\ \A j \in 1..Len(config) :
          \E i \in 1..Len(lines) : Eligible(lines[i]) /\ KeyOf(lines[i]) = config[j].key
    /\ \A j, k \in 1..Len(config) : config[j].key = config[k].key => j = k
    /\ count = Cardinality({KeyOf(lines[i]) : i \in {n \in 1..Len(lines) : Eligible(lines[n])}})

\* C25: the parsed configuration has an entry for every trimmed line that is
\* not blank, does not begin with '#' and contains '=': the key is the text
\* before the first '=', the value everything after it, a later line of the
\* same key replaces the earlier value, other lines contribute nothing, and
\* config_count is the number of distinct keys.
C25_ParsedEntries ==
    ConfigReturned =>
        MappingOf(res.ret.sample_configs, res.ret.config_count, TrimmedLines(fs[ConfigFile]))

\* a text with a blank line, a comment line and two lines of the key A, the
\* second one with a second '='
C25_Witness ==
    /\ ConfigReturned
    /\ res.ret.config_count = 1
    /\ res.ret.sample_configs = <<[key |-> <<65>>, value |-> <<50, 61, 51>>]>>
    /\ Contains(fs[ConfigFile], <<35>>)

(***************************************************************************)
(* The outcome of repacking, checked under SpecRepack.                     *)
(***************************************************************************)
\* repack_boot_image was given a kernel and returned ""; the only return of
\* "" (line 793) follows the report 'No boot image tools available'
ReportedNoTools ==
    /\ res.op = "repack" /\ res.raised = "none"
    /\ "kernel" \in DOMAIN res.components
    /\ res.ret = ""

\* C26: repack_boot_image with a kernel present returns the empty string
\* together with the 'No boot image tools available' report only when
\* neither mkbootimg nor abootimg is available.
C26_NoToolsReport == ReportedNoTools => ~tools.mkbootimg /\ ~tools.abootimg

(***************************************************************************)
(* Segments and the header, checked under Spec.                            *)
(***************************************************************************)
\* the offset at which the last extraction read a segment
SegmentOffset(seg) ==
    CASE seg = "kernel"  -> res.offsets.kernel_offset
      [] seg = "ramdisk" -> res.offsets.ramdisk_offset
      [] seg = "second"  -> res.offsets.second_offset

\* C27: for every header accepted by header-based extraction, no extracted
\* segment contains bytes of the fixed 576-byte header: the kernel range
\* starts at or after byte 576 of the container.
C27_SegmentsAfterHeader ==
    ReturnedByHeader =>
        \A seg \in Segments \cap DOMAIN res.ret.components : SegmentOffset(seg) >= HeaderLen

(***************************************************************************)
(* MasterControl, checked under SpecControl.                               *)
(***************************************************************************)
\* launch_tool has just shown its outcome for a choice of the menu
ToolShown ==
    /\ control.pc = "press_enter"
    /\ control.choice \in {"5", "6", "7", "8", "9", "10", "11"}

\* C28: launch_tool proceeds to launch a tool chosen from menu items 5 to 11
\* if and only if tools_available marks that tool as available, the flag
\* the menu displays for it; 'Tool not available' is shown only for tools
\* whose flag is False.
C28_LaunchIffAvailable ==
    ToolShown =>
        (control.shown = "Launching" <=> control.tools_available[MenuTool(control.choice)])

\* the saved configuration holds the device data the wizard detected
SavedDetected ==
    /\ Exists(fs, ControlConfigFile)
    /\ fs[ControlConfigFile].json.device_info = DetectedDevice

\* the wizard is not running: the loop is at the menu or in another handler
OutsideWizard ==
    control.pc \in {"menu", "press_enter", "toggle_confirm", "workflow", "exited"}

\* C29: device_info detected by the setup wizard is written to the persisted
\* configuration only if that wizard run passed the safety checkpoint and
\* reached completion; a run abandoned at the checkpoint leaves the
\* in-memory device_info and every later saved configuration without the
\* detected device data.
C29_DeviceInfoOnlyAfterCompletion ==
    /\ SavedDetected => control.completed
    /\ (OutsideWizard /\ control.device_info = DetectedDevice) => control.completed

\* the places inside a handler
HandlerPcs ==
    {"press_enter", "toggle_confirm", "workflow",
     "setup_ready", "setup_detected", "setup_safety", "setup_steps"}

\* the loop ends normally in this step
EndsNormally == control.pc # "exited" /\ control'.pc = "exited"

\* a choice is accepted at the menu in this step
Accepts(choices) ==
    /\ control.pc = "menu" /\ control'.pc # "interrupted"
    /\ control'.choice \in choices

\* a handler returns in this step
HandlerReturns == control.pc \in HandlerPcs /\ control'.pc \notin HandlerPcs

LoopStep ==
    /\ EndsNormally => Accepts({"0"})
    /\ Accepts({"1", "2", "3", "4", "5", "6", "7", "8", "9", "10", "11", "12", "13", "14"})
          => control'.pc \in HandlerPcs \cup {"menu"}
    /\ HandlerReturns => control'.pc \in {"menu", "interrupted"}
    /\ (Accepts({"1", "2", "3", "4"}) /\ control.mode = "advanced") =>
          /\ control'.pc = "menu"
          /\ control'.mode = control.mode
          /\ control'.device_info = control.device_info
          /\ fs' = fs

\* a handler is running and the clock of the model leaves room for a save
InHandler == control.pc \in HandlerPcs /\ clock < MaxClock

\* C30: the loop of run() ends normally only after the choice '0'; after
\* every other accepted choice control returns to the main menu, and in
\* advanced mode the choices '1' to '4' start no guided workflow and leave
\* mode, device_info and the saved configuration unchanged.
C30_LoopReturnsToMenu ==
    /\ [][LoopStep]_vars
    /\ InHandler ~> (control.pc \in {"menu", "interrupted"})

\* back at the menu in advanced mode after one of the choices '1' to '4'
C30_Witness ==
    /\ control.pc = "menu" /\ control.mode = "advanced"
    /\ control.choice \in {"1", "2", "3", "4"}
    /\ Exists(fs, ControlConfigFile)

====
